---- MODULE Spec2Model ----
(***************************************************************************)
(* Model of the local content library of ClickClipDown: the folder store   *)
(* (folder_manager.py), the metadata repository (services/metadata.py),    *)
(* the library index (services/library.py) and the downloader's record     *)
(* keeping (services/downloader.py).                                       *)
(*                                                                         *)
(* Documents, file names and folder names are TLA+ strings; the regular    *)
(* expressions of the Python code are modelled character by character on   *)
(* those strings.  Input strings are drawn from sets that contain no       *)
(* backslash (re.sub templates) and no non-ASCII character; the Korean     *)
(* legacy labels of the parser are written as ASCII stand-ins {ko:...}.    *)
(***************************************************************************)
EXTENDS Integers, Sequences, FiniteSets, TLC

VARIABLES
    config_default_folder,   \* config._settings['default_folder']
    videos,           \* <root>/videos: [folder name -> [entry name -> content]]
    metadata,         \* <root>/metadata: [video_id -> text of <video_id>.md]
    thumbnails,       \* <root>/thumbnails: [video_id -> bytes of <video_id>.jpg]
    _last_video_info, \* YouTubeDownloader._last_video_info
    last,             \* the last call: its name, arguments and return value
    stream_file,      \* the file a streaming request names: its path and bytes
    response,         \* the streaming response being produced
    fetched,          \* the URLs the last call requested with urlopen
    writers,          \* the calls that are rewriting a record: [writer -> its position]
    progress_store,   \* routes/shared.py: progress_store
    threads,          \* the background threads of download_async
    mtimes,           \* the modification times: [path -> os.path.getmtime(path)]
    _cancel_flag      \* YouTubeDownloader._cancel_flag

vars == <<config_default_folder, videos, metadata, thumbnails, _last_video_info, last,
         stream_file, response, fetched, writers, progress_store, threads, mtimes,
         _cancel_flag>>

-----------------------------------------------------------------------------
(* Python str primitives *)

Min(S) == CHOOSE x \in S : \A y \in S : x <= y
Max(S) == CHOOSE x \in S : \A y \in S : x >= y

Ch(s, i) == SubSeq(s, i, i)
From(s, i) == SubSeq(s, i, Len(s))

\* s[i:].startswith(p), 1-based
StartsAt(s, p, i) ==
    /\ i >= 1
    /\ i + Len(p) - 1 <= Len(s)
    /\ SubSeq(s, i, i + Len(p) - 1) = p

StartsWith(s, p) == StartsAt(s, p, 1)
EndsWith(s, p) == Len(p) <= Len(s) /\ StartsAt(s, p, Len(s) - Len(p) + 1)

\* s.find(p, from), 1-based; 0 when absent
Find(s, p, from) ==
    LET o == {i \in from..(Len(s) - Len(p) + 1) : SubSeq(s, i, i + Len(p) - 1) = p}
    IN  IF o = {} THEN 0 ELSE Min(o)

Contains(s, p) == Find(s, p, 1) # 0

\* str.strip()
IsSpace(c) == c \in {" ", "\n", "\t"}
Strip(s) ==
    LET keep == {i \in 1..Len(s) : ~IsSpace(Ch(s, i))}
    IN  IF keep = {} THEN "" ELSE SubSeq(s, Min(keep), Max(keep))

\* str.strip(chars)
StripChars(s, chars) ==
    LET keep == {i \in 1..Len(s) : Ch(s, i) \notin chars}
    IN  IF keep = {} THEN "" ELSE SubSeq(s, Min(keep), Max(keep))

\* str.split(sep); the recursions on strings go by position
RECURSIVE SplitFrom(_, _, _)
SplitFrom(s, sep, from) ==
    LET j == Find(s, sep, from)
    IN  IF j = 0 THEN <<From(s, from)>>
        ELSE <<SubSeq(s, from, j - 1)>> \o SplitFrom(s, sep, j + Len(sep))

Split(s, sep) == SplitFrom(s, sep, 1)

\* sep.join(parts)
RECURSIVE JoinFrom(_, _, _)
JoinFrom(parts, sep, k) ==
    IF k > Len(parts) THEN ""
    ELSE IF k = Len(parts) THEN parts[k]
    ELSE parts[k] \o sep \o JoinFrom(parts, sep, k + 1)

Join(parts, sep) == JoinFrom(parts, sep, 1)

\* os.path.splitext(name): the extension starts at the last dot that is not
\* the leading character
SplitExt(name) ==
    LET dots == {i \in 2..Len(name) : Ch(name, i) = "."}
    IN  IF dots = {} THEN [base |-> name, ext |-> ""]
        ELSE [base |-> SubSeq(name, 1, Max(dots) - 1), ext |-> From(name, Max(dots))]

-----------------------------------------------------------------------------
(* Python re primitives *)

NoMatch == [found |-> FALSE, start |-> 0, gs |-> 0, ge |-> 0, stop |-> 0]

\* re.search(A(.*?)B, s, DOTALL) from position `from` (minLen = 0), or
\* A(.+?)B (minLen = 1): the leftmost A that is followed by a B, and the
\* nearest such B.  The group is s[gs..ge], the match is s[start..stop].
SearchLazy(s, A, B, minLen, from) ==
    LET i == Find(s, A, from)
        j == IF i = 0 THEN 0 ELSE Find(s, B, i + Len(A) + minLen)
    IN  IF i = 0 \/ j = 0 THEN NoMatch
        ELSE [found |-> TRUE, start |-> i, gs |-> i + Len(A), ge |-> j - 1,
              stop |-> j + Len(B) - 1]

Group(s, m) == SubSeq(s, m.gs, m.ge)

\* re.sub(r'(A)(.*?)(B)', r'\g<1>repl\g<3>', s, flags=DOTALL): every
\* non-overlapping match, left to right.
RECURSIVE SubLazyFrom(_, _, _, _, _, _)
SubLazyFrom(s, A, B, minLen, repl, from) ==
    LET m == SearchLazy(s, A, B, minLen, from)
    IN  IF ~m.found THEN From(s, from)
        ELSE SubSeq(s, from, m.start - 1) \o A \o repl \o B
             \o SubLazyFrom(s, A, B, minLen, repl, m.stop + 1)

SubLazy(s, A, B, minLen, repl) == SubLazyFrom(s, A, B, minLen, repl, 1)

\* the end (exclusive) of the line that holds position i
LineEnd(s, i) ==
    LET n == Find(s, "\n", i) IN IF n = 0 THEN Len(s) + 1 ELSE n

\* re.search(P(.+), s): the first P that has at least one more character on
\* its line; the group is the rest of that line
SearchRestOfLine(s, P) ==
    LET o == {i \in 1..(Len(s) - Len(P) + 1) :
                 /\ SubSeq(s, i, i + Len(P) - 1) = P
                 /\ LineEnd(s, i + Len(P)) > i + Len(P)}
    IN  IF o = {} THEN NoMatch
        ELSE LET i == Min(o)
             IN  [found |-> TRUE, start |-> i, gs |-> i + Len(P),
                  ge |-> LineEnd(s, i + Len(P)) - 1,
                  stop |-> LineEnd(s, i + Len(P)) - 1]

\* re.search(r'^# (.+)$', s, MULTILINE): the first line that starts with
\* "# " and goes on; the group is the rest of that line
SearchHeading(s) ==
    LET o == {i \in 1..(Len(s) - 1) :
                 /\ SubSeq(s, i, i + 1) = "# "
                 /\ (i = 1 \/ Ch(s, i - 1) = "\n")
                 /\ LineEnd(s, i + 2) > i + 2}
    IN  IF o = {} THEN NoMatch
        ELSE LET i == Min(o)
             IN  [found |-> TRUE, start |-> i, gs |-> i + 2,
                  ge |-> LineEnd(s, i + 2) - 1, stop |-> LineEnd(s, i + 2) - 1]

\* re.search(P \[(.+?)\]\((.+?)\), s): two lazy groups on one line; the
\* result gives both groups
NoMatch2 == [found |-> FALSE, g1 |-> "", g2 |-> ""]
SearchLink(s, P) ==
    LET Ps(i) == {p \in (i + Len(P) + 1)..(LineEnd(s, i + Len(P)) - 2) :
                     SubSeq(s, p, p + 1) = "]("}
        Qs(i, p) == {q \in (p + 3)..(LineEnd(s, i + Len(P)) - 1) : Ch(s, q) = ")"}
        o == {i \in 1..(Len(s) - Len(P) + 1) :
                 /\ SubSeq(s, i, i + Len(P) - 1) = P
                 /\ \E p \in Ps(i) : Qs(i, p) # {}}
    IN  IF o = {} THEN NoMatch2
        ELSE LET i == Min(o)
                 p == Min({x \in Ps(i) : Qs(i, x) # {}})
                 q == Min(Qs(i, p))
             IN  [found |-> TRUE, g1 |-> SubSeq(s, i + Len(P), p - 1),
                  g2 |-> SubSeq(s, p + 2, q - 1)]

\* re.search(P([^|]+), s): the first P that is not directly followed by a
\* bar; the group runs up to the next bar (or the end), across lines
SearchUpToBar(s, P) ==
    LET o == {i \in 1..(Len(s) - Len(P)) :
                 /\ SubSeq(s, i, i + Len(P) - 1) = P
                 /\ Ch(s, i + Len(P)) # "|"}
    IN  IF o = {} THEN NoMatch
        ELSE LET i == Min(o)
                 b == Find(s, "|", i + Len(P))
                 e == IF b = 0 THEN Len(s) ELSE b - 1
             IN  [found |-> TRUE, start |-> i, gs |-> i + Len(P), ge |-> e, stop |-> e]

\* str.replace(old, new)
RECURSIVE ReplaceAllFrom(_, _, _, _)
ReplaceAllFrom(s, old, new, from) ==
    LET j == Find(s, old, from)
    IN  IF j = 0 THEN From(s, from)
        ELSE SubSeq(s, from, j - 1) \o new \o ReplaceAllFrom(s, old, new, j + Len(old))

ReplaceAll(s, old, new) == ReplaceAllFrom(s, old, new, 1)

\* str.lower() on ASCII
UpperAlpha == "ABCDEFGHIJKLMNOPQRSTUVWXYZ"
LowerAlpha == "abcdefghijklmnopqrstuvwxyz"
LowerOf == [c \in {Ch(UpperAlpha, k) : k \in 1..26} |->
               Ch(LowerAlpha, Find(UpperAlpha, c, 1))]
RECURSIVE LowerFrom(_, _)
LowerFrom(s, i) ==
    IF i > Len(s) THEN ""
    ELSE (IF Ch(s, i) \in DOMAIN LowerOf THEN LowerOf[Ch(s, i)] ELSE Ch(s, i))
         \o LowerFrom(s, i + 1)

Lower(s) == LowerFrom(s, 1)

-----------------------------------------------------------------------------
(* services/metadata.py: the text of a record *)

\* None, as a value of an optional string argument or of an info bag
None == ""

\* None, as the value of a dict argument (not info), and of _last_video_info
NoInfo == [k \in {} |-> ""]

\* the sentinel default of config.py and of the folder arguments
Inbox == "00_Inbox"

\* datetime.now().strftime('%Y-%m-%d %H:%M:%S')
Now == "2024-01-01 00:00:00"

FilesHeader == "| Type | Filename | Folder |\n|------|----------|--------|"
EmptyFilesTable == FilesHeader \o "\n| - | - | - |"

_build_files_table(file_type, filename, folder) ==
    IF file_type = None \/ filename = None THEN EmptyFilesTable
    ELSE FilesHeader \o "\n| " \o file_type \o " | " \o filename \o " | "
         \o (IF folder = None THEN Inbox ELSE folder) \o " |"

RECURSIVE FileRowsFrom(_, _)
FileRowsFrom(files, k) ==
    IF k > Len(files) THEN ""
    ELSE "\n| " \o files[k].type \o " | " \o files[k].filename \o " | "
         \o files[k].folder \o " |" \o FileRowsFrom(files, k + 1)

_build_files_table_from_list(files) ==
    IF files = <<>> THEN EmptyFilesTable ELSE FilesHeader \o FileRowsFrom(files, 1)

\* f"{int(n):,}" for 0 <= n < 10^6
FormatCount(n) ==
    IF n < 1000 THEN ToString(n)
    ELSE ToString(n \div 1000) \o ","
         \o (IF n % 1000 < 10 THEN "00" ELSE IF n % 1000 < 100 THEN "0" ELSE "")
         \o ToString(n % 1000)

FormatUploadDate(d) ==
    IF d # "" /\ Len(d) = 8
    THEN SubSeq(d, 1, 4) \o "-" \o SubSeq(d, 5, 6) \o "-" \o SubSeq(d, 7, 8)
    ELSE d

\* _detect_platform(url): the first platform of the table with a pattern
\* found in the lower-cased URL
PlatformPatterns == <<
    <<"youtube", {"youtube.com", "youtu.be"}>>,
    <<"tiktok", {"tiktok.com", "vm.tiktok.com"}>>,
    <<"instagram", {"instagram.com", "instagr.am"}>>,
    <<"facebook", {"facebook.com", "fb.watch", "fb.com"}>>,
    <<"twitter", {"twitter.com", "x.com"}>>,
    <<"vimeo", {"vimeo.com"}>>,
    <<"dailymotion", {"dailymotion.com", "dai.ly"}>>,
    <<"naver", {"naver.com", "tv.naver.com", "clip.naver.com", "naver.me"}>>,
    <<"pinterest", {"pinterest.com", "pin.it", "pinimg.com"}>>,
    <<"reddit", {"reddit.com", "redd.it", "v.redd.it", "i.redd.it"}>>,
    <<"soundcloud", {"soundcloud.com"}>> >>

_detect_platform(url) ==
    LET hit == {k \in 1..Len(PlatformPatterns) :
                   \E pat \in PlatformPatterns[k][2] : Contains(Lower(url), pat)}
    IN  IF url = "" \/ hit = {} THEN "other" ELSE PlatformPatterns[Min(hit)][1]

\* info.get(key, default)
Get(info, key, default) == IF key \in DOMAIN info THEN info[key] ELSE default

\* the document save_metadata writes (md_content)
md_content(info, folder, file_type, filename) ==
    "# " \o Get(info, "title", "Unknown")
    \o "\n\n## Basic Information\n\n| Item | Content |\n|------|---------|"
    \o "\n| **Channel** | [" \o Get(info, "channel", "Unknown")
    \o "](" \o Get(info, "channel_url", "#") \o ") |"
    \o "\n| **Platform** | "
    \o Get(info, "platform", _detect_platform(Get(info, "url", ""))) \o " |"
    \o "\n| **Duration** | " \o Get(info, "duration_str", "") \o " |"
    \o "\n| **Upload Date** | " \o FormatUploadDate(Get(info, "upload_date", "")) \o " |"
    \o "\n| **View Count** | " \o FormatCount(Get(info, "view_count", 0)) \o " |"
    \o "\n\n## Tags\n\n" \o Join(Get(info, "tags", <<>>), ", ")
    \o "\n\n## Files\n\n" \o _build_files_table(file_type, filename, folder)
    \o "\n\n## Links\n\n- **Original URL**: " \o Get(info, "url", "")
    \o "\n- **Channel URL**: " \o Get(info, "channel_url", "")
    \o "\n- **Thumbnail**: " \o Get(info, "thumbnail", "")
    \o "\n\n## Description\n\n" \o Get(info, "description", "No description")
    \o "\n\n---\n*Downloaded: " \o Now \o "*\n"

\* the rows of a Files section: the table lines that are neither header nor
\* the "-" sentinel, cut at the bars
RowParts(line) == LET raw == Split(line, "|") IN [k \in 1..Len(raw) |-> Strip(raw[k])]

IsFileRow(line) ==
    /\ StartsWith(line, "|")
    /\ ~StartsWith(line, "| Type")
    /\ ~StartsWith(line, "|---")
    /\ Len(RowParts(line)) >= 4
    /\ RowParts(line)[2] # "-"

FileRowsOf(lines) ==
    LET rows == SelectSeq(lines, IsFileRow)
    IN  [k \in 1..Len(rows) |-> [type |-> RowParts(rows[k])[2],
                                 filename |-> RowParts(rows[k])[3],
                                 folder |-> RowParts(rows[k])[4]]]

FilesMatch(content) == SearchLazy(content, "## Files\n\n", "\n\n## Links", 0, 1)

\* get_files on the text of an existing record
get_files_of(content) ==
    LET m == FilesMatch(content)
    IN  IF ~m.found THEN <<>> ELSE FileRowsOf(Split(Group(content, m), "\n"))

\* (variant) the entry is always appended
put_file_append(files, file_type, filename, folder) ==
    Append(files, [type |-> file_type, filename |-> filename, folder |-> folder])

\* files[existing_idx] = entry, or files.append(entry)
put_file(files, file_type, filename, folder) ==
    LET entry == [type |-> file_type, filename |-> filename, folder |-> folder]
        same == {i \in 1..Len(files) : files[i].type = file_type}
    IN  IF same # {} THEN [files EXCEPT ![Min(same)] = entry]
        ELSE Append(files, entry)

\* the text add_file writes back, content being what it read and files
\* what its call of get_files returned
add_file_text(content, files, file_type, filename, folder) ==
    SubLazy(content, "## Files\n\n", "\n\n## Links", 0,
            _build_files_table_from_list(put_file(files, file_type, filename, folder)))

\* (variant) the record is written back as it was read
add_file_content_kept(content, file_type, filename, folder) == content

\* the text add_file writes back when no other call writes the record
\* meanwhile
add_file_content(content, file_type, filename, folder) ==
    add_file_text(content, get_files_of(content), file_type, filename, folder)

\* [f for f in files if f['type'] != file_type]
drop_type(files, file_type) == SelectSeq(files, LAMBDA f : f.type # file_type)

\* the text remove_file writes back
remove_file_content(content, file_type) ==
    SubLazy(content, "## Files\n\n", "\n\n## Links", 0,
            _build_files_table_from_list(drop_type(get_files_of(content), file_type)))

\* the text update_metadata writes back; updates is a function on a subset
\* of {"title", "description"}
KoDescription == "## {ko:description}\n\n"
update_metadata_content(content, updates) ==
    LET h == SearchHeading(content)
        c1 == IF "title" \in DOMAIN updates /\ h.found
              THEN SubSeq(content, 1, h.start - 1) \o "# " \o updates["title"]
                   \o From(content, h.stop + 1)
              ELSE content
        c2 == IF "description" \in DOMAIN updates
              THEN SubLazy(SubLazy(c1, "## Description\n\n", "\n\n---", 1,
                                   updates["description"]),
                           KoDescription, "\n\n---", 1, updates["description"])
              ELSE c1
    IN  c2

\* the text mark_as_downloaded writes back
KoLinkOnly == "*{ko:link only saved}*"
mark_as_downloaded_content(content) ==
    ReplaceAll(ReplaceAll(content, "\n*Link only saved*\n", "\n"),
               "\n" \o KoLinkOnly \o "\n", "\n")

\* the text update_tags writes back
KoTags == "## {ko:tags}\n\n"
KoLinks == "\n\n## {ko:links}"
update_tags_content(content, tags) ==
    SubLazy(SubLazy(content, "## Tags\n\n", "\n\n## Links", 1, Join(tags, ", ")),
            KoTags, KoLinks, 1, Join(tags, ", "))

\* [t.strip() for t in tags_str.split(',') if t.strip()]
StripNonEmpty(parts) ==
    LET kept == SelectSeq(parts, LAMBDA t : Strip(t) # "")
    IN  [k \in 1..Len(kept) |-> Strip(kept[k])]

\* the first of the searches that matches
FirstFound(ms) ==
    LET f == {k \in 1..Len(ms) : ms[k].found}
    IN  IF f = {} THEN ms[1] ELSE ms[Min(f)]

\* parse_metadata on the text of a record
parse_metadata(content) ==
    LET title == SearchHeading(content)
        channel == FirstFound(<<SearchLink(content, "**Channel** | ["),
                                SearchLink(content, "**{ko:channel}** | [")>>)
        platform == FirstFound(<<SearchUpToBar(content, "**Platform** | "),
                                 SearchUpToBar(content, "**{ko:platform}** | ")>>)
        duration == FirstFound(<<SearchRestOfLine(content, "**Duration** | "),
                                 SearchRestOfLine(content, "**{ko:duration}** | ")>>)
        tags == FirstFound(<<SearchLazy(content, "## Tags\n\n", "\n\n##", 1, 1),
                             SearchLazy(content, KoTags, "\n\n##", 1, 1)>>)
        files == get_files_of(content)
        url == FirstFound(<<SearchRestOfLine(content, "**Original URL**: "),
                            SearchRestOfLine(content, "**{ko:original} URL**: "),
                            SearchRestOfLine(content, "**YouTube URL**: ")>>)
        thumb == FirstFound(<<SearchRestOfLine(content, "**Thumbnail**: "),
                              SearchRestOfLine(content, "**{ko:thumbnail}**: ")>>)
        desc == FirstFound(<<SearchLazy(content, "## Description\n\n", "\n\n---", 1, 1),
                             SearchLazy(content, KoDescription, "\n\n---", 1, 1)>>)
        marked == Contains(content, "*Link only saved*") \/ Contains(content, KoLinkOnly)
    IN  [title |-> IF title.found THEN Strip(Group(content, title)) ELSE "",
         channel |-> IF channel.found THEN channel.g1 ELSE "",
         channel_url |-> IF channel.found THEN channel.g2 ELSE "",
         duration_str |-> IF duration.found THEN Strip(Group(content, duration)) ELSE "",
         url |-> IF url.found THEN Strip(Group(content, url)) ELSE "",
         thumbnail |-> IF thumb.found THEN Strip(Group(content, thumb)) ELSE "",
         description |-> IF desc.found THEN Strip(Group(content, desc)) ELSE "",
         tags |-> IF tags.found
                  THEN StripNonEmpty(Split(Strip(Group(content, tags)), ","))
                  ELSE <<>>,
         platform |-> IF platform.found THEN Strip(Group(content, platform)) ELSE "other",
         link_only |-> \/ marked
                       \/ /\ FilesMatch(content).found
                          /\ \/ Len(files) = 0
                             \/ Len(files) = 1 /\ files[1].type = "-",
         files |-> files,
         has_video |-> \E k \in 1..Len(files) : files[k].type = "video",
         has_audio |-> \E k \in 1..Len(files) : files[k].type = "audio"]

-----------------------------------------------------------------------------
(* folder_manager.py: the folder store.  Every specification starts after a
   successful initialize_structure(root), so is_configured() holds.  A
   directory is a function from entry names to contents: a positive number
   is the content of a file, SubDir marks a subdirectory.  The messages that the
   operations return in Korean are written as short English codes. *)

SubDir == 0
EmptyDir == <<>>

\* (variant) the sentinel name whatever the configuration says
default_folder_literal == Inbox

\* FolderManager.default_folder
default_folder == IF config_default_folder = "" THEN Inbox ELSE config_default_folder

\* os.path.exists(join(videos_path, name)), os.path.isdir(...)
FolderExists(name) == name \in DOMAIN videos

\* ord(c) >= 32 on the characters of the model
IsControl(c) == c \in {"\n", "\t"}

InvalidChars == {"<", ">", ":", "\"", "/", "\\", "|", "?", "*"}
MaxFolderNameLen == 255

RECURSIVE RemoveCharsFrom(_, _, _)
RemoveCharsFrom(s, bad, i) ==
    IF i > Len(s) THEN ""
    ELSE (IF Ch(s, i) \in bad THEN "" ELSE Ch(s, i)) \o RemoveCharsFrom(s, bad, i + 1)

RemoveChars(s, bad) == RemoveCharsFrom(s, bad, 1)

_sanitize_folder_name(name) ==
    LET sanitized == StripChars(RemoveChars(RemoveChars(name, InvalidChars),
                                            {"\n", "\t"}), {".", " "})
    IN  IF Len(sanitized) > MaxFolderNameLen
        THEN SubSeq(sanitized, 1, MaxFolderNameLen) ELSE sanitized

VideoExtensions == {".mp4", ".webm", ".mkv", ".mp3"}

\* filename.lower().endswith(video_extensions)
HasVideoExtension(filename) ==
    \E lower \in {Lower(filename)} : \E e \in VideoExtensions : EndsWith(lower, e)

_count_videos_in_folder(dir) ==
    Cardinality({n \in DOMAIN dir : HasVideoExtension(n)})

\* get_folders(), as the set of its entries
get_folders ==
    {[name |-> n, video_count |-> _count_videos_in_folder(videos[n]),
      is_default |-> (n = default_folder)] : n \in DOMAIN videos}

\* a function with one more (or one replaced) key, and with one key less
Put(f, k, v) == [x \in DOMAIN f \cup {k} |-> IF x = k THEN v ELSE f[x]]
Drop(f, k) == [x \in DOMAIN f \ {k} |-> f[x]]

\* the free name the duplicate-filename loop ends with: filename itself, or
\* base_<counter>ext for the first counter that is free
RECURSIVE FreeCounter(_, _, _, _)
FreeCounter(dir, base, ext, counter) ==
    IF (base \o "_" \o ToString(counter) \o ext) \in DOMAIN dir
    THEN FreeCounter(dir, base, ext, counter + 1)
    ELSE counter

\* (variant) no duplicate-filename loop: the destination keeps the name
FreeName_overwrite(dir, filename) == filename

FreeName(dir, filename) ==
    IF filename \notin DOMAIN dir THEN filename
    ELSE LET p == SplitExt(filename)
         IN  p.base \o "_" \o ToString(FreeCounter(dir, p.base, p.ext, 1)) \o p.ext

IsFile(dir, n) == n \in DOMAIN dir /\ dir[n] # SubDir

Result(op, args, ok, ret) == [op |-> op, args |-> args, ok |-> ok, ret |-> ret]

\* no streaming request is being served
NoFile == [path |-> "", exists |-> FALSE, data |-> <<>>]

NoResponse == [op |-> "", status |-> 0]

\* the request handlers that can rewrite a record at the same time, none of
\* them at work
Writers == {1, 2}
IdleWriter == [pc |-> "idle"]
NoWriters == [w \in Writers |-> IdleWriter]

\* progress_store as the module sets it up
IdleProgress ==
    [status |-> "idle", progress |-> 0, message |-> "", filename |-> "", filepath |-> ""]

\* the background threads that can run at the same time, none of them
\* started
Tasks == {1, 2}
IdleTask == [pc |-> "idle"]
NoThreads == [t \in Tasks |-> IdleTask]

NoRequests ==
    /\ stream_file = NoFile /\ response = NoResponse /\ fetched = <<>>
    /\ writers = NoWriters /\ progress_store = IdleProgress /\ threads = NoThreads
    /\ mtimes = <<>> /\ _cancel_flag = FALSE

\* a call of the library returns, having requested the URLs requested: it
\* leaves the requests being served alone
ReturnAfter(op, args, ok, ret, requested) ==
    /\ last' = Result(op, args, ok, ret)
    /\ fetched' = requested
    /\ UNCHANGED <<stream_file, response, writers, progress_store, threads, mtimes,
                   _cancel_flag>>

Return(op, args, ok, ret) == ReturnAfter(op, args, ok, ret, <<>>)

\* os.makedirs(path, exist_ok=True) of a folder under videos/
MakeDirs(vs, name) == IF name \in DOMAIN vs THEN vs ELSE Put(vs, name, EmptyDir)

\* (variant) the directory arrives under the new name without its entries
RenameDir_emptied(vs, old_name, new_name) == Put(Drop(vs, old_name), new_name, EmptyDir)

\* os.rename(old_path, new_path) of a folder under videos/
RenameDir(vs, old_name, new_name) == Put(Drop(vs, old_name), new_name, vs[old_name])

\* (variant) the directory is made under the name as typed
create_folder_raw(name) ==
    IF name = "" \/ Strip(name) = "" \/ _sanitize_folder_name(Strip(name)) = ""
       \/ FolderExists(_sanitize_folder_name(Strip(name)))
    THEN /\ Return("create_folder", <<name>>, FALSE, "rejected")
         /\ UNCHANGED <<config_default_folder, videos, metadata, thumbnails, _last_video_info>>
    ELSE /\ videos' = Put(videos, Strip(name), EmptyDir)
         /\ Return("create_folder", <<name>>, TRUE,
                           _sanitize_folder_name(Strip(name)))
         /\ UNCHANGED <<config_default_folder, metadata, thumbnails, _last_video_info>>

create_folder(name) ==
    LET sanitized_name == _sanitize_folder_name(Strip(name))
        fail(msg) == /\ Return("create_folder", <<name>>, FALSE, msg)
                     /\ UNCHANGED <<config_default_folder, videos, metadata, thumbnails, _last_video_info>>
    IN  IF name = "" \/ Strip(name) = "" THEN fail("name required")
        ELSE IF sanitized_name = "" THEN fail("invalid name")
        ELSE IF FolderExists(sanitized_name) THEN fail("already exists")
        ELSE /\ videos' = Put(videos, sanitized_name, EmptyDir)
             /\ Return("create_folder", <<name>>, TRUE, sanitized_name)
             /\ UNCHANGED <<config_default_folder, metadata, thumbnails, _last_video_info>>

rename_folder(old_name, new_name) ==
    LET sanitized_name == _sanitize_folder_name(Strip(new_name))
        fail(msg) == /\ Return("rename_folder", <<old_name, new_name>>, FALSE, msg)
                     /\ UNCHANGED <<config_default_folder, videos, metadata, thumbnails, _last_video_info>>
    IN  IF old_name = default_folder THEN fail("default folder")
        ELSE IF new_name = "" \/ Strip(new_name) = "" THEN fail("name required")
        ELSE IF sanitized_name = "" THEN fail("invalid name")
        ELSE IF ~FolderExists(old_name) THEN fail("not found")
        ELSE IF FolderExists(sanitized_name) THEN fail("already exists")
        ELSE /\ videos' = RenameDir(videos, old_name, sanitized_name)
             /\ Return("rename_folder", <<old_name, new_name>>, TRUE, sanitized_name)
             /\ UNCHANGED <<config_default_folder, metadata, thumbnails, _last_video_info>>

\* the orders in which os.listdir may give the entries of a directory
ListDirs(dir) ==
    {o \in [1..Cardinality(DOMAIN dir) -> DOMAIN dir] :
        \A i, j \in DOMAIN o : i # j => o[i] # o[j]}

\* the loop of delete_folder over the entries in the order `listing`: every
\* regular file goes to the inbox under a free name
RECURSIVE MoveAllToInbox(_, _, _)
MoveAllToInbox(listing, folder, inbox) ==
    IF listing = <<>> THEN [folder |-> folder, inbox |-> inbox]
    ELSE LET filename == listing[1]
         IN  IF IsFile(folder, filename)
             THEN MoveAllToInbox(Tail(listing), Drop(folder, filename),
                                 Put(inbox, FreeName(inbox, filename), folder[filename]))
             ELSE MoveAllToInbox(Tail(listing), folder, inbox)

delete_folder(name) ==
    LET fail(msg) == /\ Return("delete_folder", <<name>>, FALSE, msg)
                     /\ UNCHANGED <<config_default_folder, videos, metadata, thumbnails, _last_video_info>>
    IN  IF name = default_folder THEN fail("default folder")
        ELSE IF ~FolderExists(name) THEN fail("not found")
        ELSE \E listing \in ListDirs(videos[name]) :
             IF ~FolderExists(default_folder)
             THEN \* shutil.move into a missing directory raises OSError
                  IF \E n \in DOMAIN videos[name] : IsFile(videos[name], n)
                  THEN fail("OSError")
                  ELSE IF videos[name] # EmptyDir
                  THEN fail("OSError")
                  ELSE /\ videos' = Drop(videos, name)
                       /\ Return("delete_folder", <<name>>, TRUE, 0)
                       /\ UNCHANGED <<config_default_folder, metadata, thumbnails, _last_video_info>>
             ELSE LET moved == MoveAllToInbox(listing, videos[name], videos[default_folder])
                      moved_count == Cardinality(DOMAIN videos[name])
                                     - Cardinality(DOMAIN moved.folder)
                  IN  IF moved.folder # EmptyDir
                      THEN \* os.rmdir of a directory that is not empty raises OSError
                           /\ videos' = [videos EXCEPT ![default_folder] = moved.inbox,
                                                       ![name] = moved.folder]
                           /\ Return("delete_folder", <<name>>, FALSE, "OSError")
                           /\ UNCHANGED <<config_default_folder, metadata, thumbnails, _last_video_info>>
                      ELSE /\ videos' = Drop([videos EXCEPT ![default_folder] = moved.inbox],
                                             name)
                           /\ Return("delete_folder", <<name>>, TRUE, moved_count)
                           /\ UNCHANGED <<config_default_folder, metadata, thumbnails, _last_video_info>>

\* (variant) the file is copied: it stays in the source folder
move_video_copying(video_filename, source_folder, target_folder) ==
    LET args == <<video_filename, source_folder, target_folder>>
        fail(msg) == /\ Return("move_video", args, FALSE, msg)
                     /\ UNCHANGED <<config_default_folder, videos, metadata, thumbnails, _last_video_info>>
    IN  IF source_folder = target_folder THEN fail("same folder")
        ELSE IF ~(FolderExists(source_folder)
                  /\ video_filename \in DOMAIN videos[source_folder])
        THEN fail("file not found")
        ELSE IF ~FolderExists(target_folder) THEN fail("target not found")
        ELSE /\ videos' =
                 [videos EXCEPT
                    ![target_folder] = Put(@, FreeName(@, video_filename),
                                           videos[source_folder][video_filename])]
             /\ Return("move_video", args, TRUE, "moved")
             /\ UNCHANGED <<config_default_folder, metadata, thumbnails, _last_video_info>>

move_video(video_filename, source_folder, target_folder) ==
    LET args == <<video_filename, source_folder, target_folder>>
        fail(msg) == /\ Return("move_video", args, FALSE, msg)
                     /\ UNCHANGED <<config_default_folder, videos, metadata, thumbnails, _last_video_info>>
    IN  IF source_folder = target_folder THEN fail("same folder")
        ELSE IF ~(FolderExists(source_folder)
                  /\ video_filename \in DOMAIN videos[source_folder])
        THEN fail("file not found")
        ELSE IF ~FolderExists(target_folder) THEN fail("target not found")
        ELSE /\ videos' =
                 [videos EXCEPT
                    ![source_folder] = Drop(@, video_filename),
                    ![target_folder] = Put(@, FreeName(@, video_filename),
                                           videos[source_folder][video_filename])]
             /\ Return("move_video", args, TRUE, "moved")
             /\ UNCHANGED <<config_default_folder, metadata, thumbnails, _last_video_info>>

rename_default_folder(new_name) ==
    LET sanitized_name == _sanitize_folder_name(Strip(new_name))
        old_name == default_folder
        fail(msg) == /\ Return("rename_default_folder", <<new_name>>, FALSE, msg)
                     /\ UNCHANGED <<config_default_folder, videos, metadata, thumbnails, _last_video_info>>
    IN  IF new_name = "" \/ Strip(new_name) = "" THEN fail("name required")
        ELSE IF sanitized_name = "" THEN fail("invalid name")
        ELSE IF old_name = sanitized_name
        THEN /\ Return("rename_default_folder", <<new_name>>, TRUE, "same name")
             /\ UNCHANGED <<config_default_folder, videos, metadata, thumbnails, _last_video_info>>
        ELSE IF FolderExists(old_name) /\ FolderExists(sanitized_name)
        THEN fail("already exists")
        ELSE /\ videos' = IF FolderExists(old_name)
                          THEN RenameDir(videos, old_name, sanitized_name)
                          ELSE MakeDirs(videos, sanitized_name)
             /\ config_default_folder' = sanitized_name
             /\ Return("rename_default_folder", <<new_name>>, TRUE, sanitized_name)
             /\ UNCHANGED <<metadata, thumbnails, _last_video_info>>

\* initialize_structure(path) on the configured root: the default folder is
\* created when it is missing
initialize_structure(vs) == MakeDirs(vs, default_folder)

\* POST /api/settings; data is a function on a subset of
\* {"content_path", "default_folder"}, content_path being the current root
save_settings(data) ==
    /\ videos' = IF "content_path" \in DOMAIN data
                 THEN initialize_structure(videos) ELSE videos
    /\ config_default_folder' = IF "default_folder" \in DOMAIN data
                                THEN data["default_folder"] ELSE config_default_folder
    /\ Return("save_settings", <<data>>, TRUE, "saved")
    /\ UNCHANGED <<metadata, thumbnails, _last_video_info>>

\* the number of media files the model lets the library hold
MaxFiles == 2

\* the contents of the files under videos/
Contents ==
    UNION {{videos[f][n] : n \in DOMAIN videos[f]} : f \in DOMAIN videos} \ {SubDir}

\* the file that a download leaves: the engine writes outtmpl under
\* download_dir, which is the folder when it is a directory and the literal
\* 00_Inbox otherwise (the engine creates missing directories and keeps a
\* file that is already there)
engine_write(vs, folder, filename, content) ==
    LET download_dir == IF folder \in DOMAIN vs THEN folder ELSE Inbox
        made == MakeDirs(vs, download_dir)
    IN  IF filename \in DOMAIN made[download_dir] THEN made
        ELSE [made EXCEPT ![download_dir] = Put(@, filename, content)]

-----------------------------------------------------------------------------
(* services/metadata.py: the operations of MetadataService on the records
   under <root>/metadata.  A call that finds no record returns False and
   writes nothing. *)

metadata_exists(video_id) == video_id \in DOMAIN metadata

get_files(video_id) ==
    IF metadata_exists(video_id) THEN get_files_of(metadata[video_id]) ELSE <<>>

\* an operation that rewrites the text of an existing record
Rewrite(op, args, video_id, content) ==
    IF ~metadata_exists(video_id)
    THEN /\ Return(op, args, FALSE, FALSE)
         /\ UNCHANGED <<config_default_folder, videos, metadata, thumbnails, _last_video_info>>
    ELSE /\ metadata' = [metadata EXCEPT ![video_id] = content]
         /\ Return(op, args, TRUE, TRUE)
         /\ UNCHANGED <<config_default_folder, videos, thumbnails, _last_video_info>>

save_metadata(video_id, info, folder, file_type, filename) ==
    LET args == <<video_id, info, folder, file_type, filename>>
    IN  IF DOMAIN info = {}
        THEN /\ Return("save_metadata", args, FALSE, None)
             /\ UNCHANGED <<config_default_folder, videos, metadata, thumbnails, _last_video_info>>
        ELSE /\ metadata' = Put(metadata, video_id,
                                md_content(info, folder, file_type, filename))
             /\ Return("save_metadata", args, TRUE, video_id)
             /\ UNCHANGED <<config_default_folder, videos, thumbnails, _last_video_info>>

add_file(video_id, file_type, filename, folder) ==
    Rewrite("add_file", <<video_id, file_type, filename, folder>>, video_id,
            add_file_content(metadata[video_id], file_type, filename, folder))

remove_file(video_id, file_type) ==
    Rewrite("remove_file", <<video_id, file_type>>, video_id,
            remove_file_content(metadata[video_id], file_type))

update_metadata(video_id, updates) ==
    Rewrite("update_metadata", <<video_id, updates>>, video_id,
            update_metadata_content(metadata[video_id], updates))

update_tags(video_id, tags) ==
    Rewrite("update_tags", <<video_id, tags>>, video_id,
            update_tags_content(metadata[video_id], tags))

mark_as_downloaded(video_id) ==
    Rewrite("mark_as_downloaded", <<video_id>>, video_id,
            mark_as_downloaded_content(metadata[video_id]))

delete_metadata(video_id) ==
    IF ~metadata_exists(video_id)
    THEN /\ Return("delete_metadata", <<video_id>>, FALSE, FALSE)
         /\ UNCHANGED <<config_default_folder, videos, metadata, thumbnails, _last_video_info>>
    ELSE /\ metadata' = Drop(metadata, video_id)
         /\ Return("delete_metadata", <<video_id>>, TRUE, TRUE)
         /\ UNCHANGED <<config_default_folder, videos, thumbnails, _last_video_info>>

-----------------------------------------------------------------------------
(* services/downloader.py and services/thumbnail.py: what a link save and a
   download leave in the library.  The engine (yt-dlp) answers a URL with
   its info dict; an extraction or a download can fail (the first disjunct
   of the actions), a download can be cancelled while it runs (the second
   disjunct of download), and the fetch of a thumbnail can fail. *)

\* hashlib.md5(url.encode()).hexdigest()[:12] on the URLs of the model
UrlDigest == ("https://youtu.be/u1" :> "85cc773355ff") @@
             ("https://x.test/u2" :> "c6f6ebd1bce2")

_generate_id_from_url(url) == UrlDigest[url]

TwoDigits(n) == IF n < 10 THEN "0" \o ToString(n) ELSE ToString(n)

_format_duration(seconds) ==
    IF seconds = 0 THEN "0:00"
    ELSE LET hours == seconds \div 3600
             minutes == (seconds % 3600) \div 60
             secs == seconds % 60
         IN  IF hours > 0
             THEN ToString(hours) \o ":" \o TwoDigits(minutes) \o ":" \o TwoDigits(secs)
             ELSE ToString(minutes) \o ":" \o TwoDigits(secs)

\* re.findall(r'#([\w]+)', text), then the first of every tag that differs
\* in more than case
Digits == "0123456789"
IsWordChar(c) == c # "" /\ \/ Contains(UpperAlpha, c) \/ Contains(LowerAlpha, c)
                           \/ Contains(Digits, c) \/ c = "_"

WordEnd(s, i) == Min({j \in i..(Len(s) + 1) : j > Len(s) \/ ~IsWordChar(Ch(s, j))})

RECURSIVE HashtagsFrom(_, _)
HashtagsFrom(s, from) ==
    LET h == Find(s, "#", from)
    IN  IF h = 0 THEN <<>>
        ELSE IF WordEnd(s, h + 1) = h + 1 THEN HashtagsFrom(s, h + 1)
        ELSE <<SubSeq(s, h + 1, WordEnd(s, h + 1) - 1)>>
             \o HashtagsFrom(s, WordEnd(s, h + 1))

RECURSIVE UniqueFrom(_, _, _)
UniqueFrom(tags, k, seen) ==
    IF k > Len(tags) THEN <<>>
    ELSE IF Lower(tags[k]) \in seen THEN UniqueFrom(tags, k + 1, seen)
    ELSE <<tags[k]>> \o UniqueFrom(tags, k + 1, seen \cup {Lower(tags[k])})

_extract_hashtags(text) == UniqueFrom(HashtagsFrom(text, 1), 1, {})

ExtractorMap == <<
    <<"youtube", "youtube">>, <<"instagram", "instagram">>, <<"tiktok", "tiktok">>,
    <<"facebook", "facebook">>, <<"twitter", "twitter">>, <<"vimeo", "vimeo">>,
    <<"dailymotion", "dailymotion">>, <<"naver", "naver">>, <<"navertv", "naver">>,
    <<"navercafe", "naver">>, <<"pinterest", "pinterest">>, <<"reddit", "reddit">>,
    <<"soundcloud", "soundcloud">> >>

_extractor_to_platform(extractor) ==
    LET e == Lower(extractor)
        exact == {k \in 1..Len(ExtractorMap) : ExtractorMap[k][1] = e}
        part == {k \in 1..Len(ExtractorMap) : Contains(e, ExtractorMap[k][1])}
    IN  IF extractor = "" THEN None
        ELSE IF exact # {} THEN ExtractorMap[Min(exact)][2]
        ELSE IF part # {} THEN ExtractorMap[Min(part)][2]
        ELSE None

\* info.get('id') or self._generate_id_from_url(url)
video_id_of(url, info) ==
    IF Get(info, "id", None) # None THEN info.id ELSE _generate_id_from_url(url)

\* the dict get_video_info stores in _last_video_info
video_info_of(url, info) ==
    [url |-> url,
     title |-> Get(info, "title", "Unknown"),
     thumbnail |-> Get(info, "thumbnail", ""),
     duration |-> Get(info, "duration", 0),
     duration_str |-> _format_duration(Get(info, "duration", 0)),
     channel |-> Get(info, "channel", Get(info, "uploader", "Unknown")),
     channel_url |-> Get(info, "channel_url", Get(info, "uploader_url", "")),
     description |-> Get(info, "description", ""),
     view_count |-> Get(info, "view_count", 0),
     upload_date |-> Get(info, "upload_date", ""),
     video_id |-> video_id_of(url, info),
     tags |-> IF Get(info, "tags", <<>>) # <<>> THEN info.tags
              ELSE _extract_hashtags(Get(info, "description", "")),
     platform |-> IF _extractor_to_platform(Lower(Get(info, "extractor", ""))) # None
                  THEN _extractor_to_platform(Lower(Get(info, "extractor", "")))
                  ELSE _detect_platform(url)]

\* ThumbnailService.get_thumbnail_path(video_id), thumbnail_exists
get_thumbnail_path(thumbs, video_id) ==
    IF video_id \in DOMAIN thumbs THEN video_id \o ".jpg" ELSE None

thumbnail_exists(thumbs, video_id) == get_thumbnail_path(thumbs, video_id) # None

\* the bytes that a fetch of url answers with
Image(url) == url

\* ThumbnailService.save_thumbnail(video_id, info, thumbnail_url) over the
\* thumbnails thumbs: what it can leave, request and return.  urlopen can
\* fail, which leaves no file, and response.read() can fail, which leaves
\* the file that open() has just created, empty
save_thumbnail_refetching(thumbs, video_id, info, thumbnail_url) ==
    LET url == IF thumbnail_url # None THEN thumbnail_url
               ELSE IF DOMAIN info # {} THEN Get(info, "thumbnail", "") ELSE None
        Outcome(t, requested, ret) == [thumbnails |-> t, fetched |-> requested, ret |-> ret]
    IN  IF url = None THEN {Outcome(thumbs, <<>>, None)}
        ELSE {Outcome(Put(thumbs, video_id, Image(url)), <<url>>, video_id \o ".jpg"),
              Outcome(thumbs, <<url>>, None),
              Outcome(Put(thumbs, video_id, ""), <<url>>, None)}

save_thumbnail_outcomes(thumbs, video_id, info, thumbnail_url) ==
    LET url == IF thumbnail_url # None THEN thumbnail_url
               ELSE IF DOMAIN info # {} THEN Get(info, "thumbnail", "") ELSE None
        Outcome(t, requested, ret) == [thumbnails |-> t, fetched |-> requested, ret |-> ret]
    IN  IF url = None THEN {Outcome(thumbs, <<>>, None)}
        ELSE IF thumbnail_exists(thumbs, video_id)
        THEN {Outcome(thumbs, <<>>, get_thumbnail_path(thumbs, video_id))}
        ELSE {Outcome(Put(thumbs, video_id, Image(url)), <<url>>, video_id \o ".jpg"),
              Outcome(thumbs, <<url>>, None),
              Outcome(Put(thumbs, video_id, ""), <<url>>, None)}

\* what the engine extracts for the URLs of the model: one video that has
\* an id of its own and takes its tags from the description, one that has
\* no id, no channel URL and no thumbnail
Engine ==
    ("https://youtu.be/u1" :>
        [id |-> "v1", title |-> "T", ext |-> "mp4", thumbnail |-> "http://t/1.jpg",
         duration |-> 200, channel |-> "Chan", channel_url |-> "http://c/1",
         description |-> "about #a and #A", view_count |-> 1234,
         upload_date |-> "20240102", tags |-> <<>>, extractor |-> "Youtube"]) @@
    ("https://x.test/u2" :>
        [id |-> None, title |-> "X", ext |-> "webm", thumbnail |-> "",
         duration |-> 3725, uploader |-> "Up", description |-> "",
         view_count |-> 0, upload_date |-> "", tags |-> <<"a", "b">>,
         extractor |-> "generic"])

Urls == DOMAIN Engine

Unchanged_library == UNCHANGED <<config_default_folder, videos, metadata, thumbnails>>

get_video_info(url) ==
    \/ /\ Return("get_video_info", <<url>>, FALSE, "error")
       /\ UNCHANGED _last_video_info
       /\ Unchanged_library
    \/ /\ _last_video_info' = video_info_of(url, Engine[url])
       /\ Return("get_video_info", <<url>>, TRUE, video_id_of(url, Engine[url]))
       /\ Unchanged_library

\* (variant) the record is written whether or not one exists
save_link_only_overwriting(url, folder) ==
    \/ /\ Return("save_link_only", <<url, folder>>, FALSE, "error")
       /\ UNCHANGED _last_video_info
       /\ Unchanged_library
    \/ LET info == video_info_of(url, Engine[url])
           video_id == info.video_id
           saved == [info EXCEPT !.platform = _detect_platform(url)]
       IN  /\ _last_video_info' = saved
           /\ metadata' = Put(metadata, video_id, md_content(saved, folder, None, None))
           /\ Return("save_link_only", <<url, folder>>, TRUE,
                     [video_id |-> video_id, already_exists |-> metadata_exists(video_id)])
           /\ UNCHANGED <<config_default_folder, videos, thumbnails>>

save_link_only(url, folder) ==
    \/ /\ Return("save_link_only", <<url, folder>>, FALSE, "error")
       /\ UNCHANGED _last_video_info
       /\ Unchanged_library
    \/ LET info == video_info_of(url, Engine[url])
           video_id == info.video_id
           saved == [info EXCEPT !.platform = _detect_platform(url)]
           ret(exists) == [video_id |-> video_id, already_exists |-> exists]
       IN  IF metadata_exists(video_id)
           THEN /\ _last_video_info' = info
                /\ Return("save_link_only", <<url, folder>>, TRUE, ret(TRUE))
                /\ Unchanged_library
           ELSE /\ _last_video_info' = saved
                /\ metadata' = Put(metadata, video_id, md_content(saved, folder, None, None))
                /\ \E saved_thumbnail \in
                         save_thumbnail_outcomes(thumbnails, video_id, saved, None) :
                      /\ thumbnails' = saved_thumbnail.thumbnails
                      /\ ReturnAfter("save_link_only", <<url, folder>>, TRUE, ret(FALSE),
                                     saved_thumbnail.fetched)
                /\ UNCHANGED <<config_default_folder, videos>>

\* ydl.prepare_filename(info) under outtmpl %(title)s.%(ext)s, and the
\* name the record gets: the extension replaced by the target one
prepare_filename(info) == Get(info, "title", "NA") \o "." \o Get(info, "ext", "NA")

base_filename_of(info, target_ext) ==
    IF EndsWith(prepare_filename(info), target_ext) THEN prepare_filename(info)
    ELSE SplitExt(prepare_filename(info)).base \o target_ext

\* dict.update: the keys of data replace or extend those of the store
update_progress(store, data) == data @@ store

update_progress_store_data(store, data) == data @@ store

\* a thread of download_async between its start and its end
Task(pc, url, download_type, folder, result) ==
    [pc |-> pc, url |-> url, download_type |-> download_type, folder |-> folder,
     result |-> result]

\* the dictionary download_video and download_audio return to run()
download_result(vs, folder, ok, ret) ==
    IF ok
    THEN [success |-> TRUE, filename |-> ret.filename,
          filepath |-> (IF folder \in DOMAIN vs THEN folder ELSE Inbox)
                          \o "/" \o ret.filename]
    ELSE [success |-> FALSE, error |-> ret]

\* what download_video and download_audio pass to progress_callback when
\* they end: the finished file, the exception, nothing when cancelled
final_progress(store, result) ==
    IF result.success
    THEN update_progress(store, [status |-> "completed", progress |-> 100,
                                 filename |-> result.filename,
                                 filepath |-> result.filepath])
    ELSE IF result.error = "error"
    THEN update_progress(store, [status |-> "error", message |-> result.error])
    ELSE store

\* download_video or download_audio returns its result to run() of thread t
thread_return(t, op, args, ok, ret, requested) ==
    LET result == download_result(videos, threads[t].folder, ok, ret)
    IN  /\ last' = Result(op, args, ok, ret)
        /\ fetched' = requested
        /\ progress_store' = final_progress(progress_store, result)
        /\ threads' = [threads EXCEPT ![t] =
                          Task("returned", @.url, @.download_type, @.folder, result)]
        /\ UNCHANGED <<stream_file, response, writers, mtimes, _cancel_flag>>

\* the result of a download goes to its caller: to run() of the background
\* thread that called it, or to the caller of the library (thread 0)
download_returns(thread, op, args, ok, ret, requested) ==
    IF thread \in Tasks THEN thread_return(thread, op, args, ok, ret, requested)
    ELSE ReturnAfter(op, args, ok, ret, requested)

\* download_video and download_audio: the engine leaves the merged or
\* converted file under the target extension; the record is written only
\* when the download was neither cancelled nor failed
download_by(thread, op, url, folder, file_type, target_ext) ==
    LET info == Engine[url]
        video_id == video_id_of(url, info)
        base_filename == base_filename_of(info, target_ext)
        written == engine_write(videos, folder, base_filename,
                                Min({c \in 1..(MaxFiles + 1) : c \notin Contents}))
        ret == [filename |-> base_filename, folder |-> folder, video_id |-> video_id]
    IN  \/ /\ download_returns(thread, op, <<url, folder>>, FALSE, "error", <<>>)
           /\ UNCHANGED _last_video_info
           /\ Unchanged_library
        \/ /\ Cardinality(Contents) < MaxFiles \/ written = videos
           /\ videos' = written
           /\ download_returns(thread, op, <<url, folder>>, FALSE, "cancelled", <<>>)
           /\ UNCHANGED <<config_default_folder, metadata, thumbnails, _last_video_info>>
        \/ /\ Cardinality(Contents) < MaxFiles \/ written = videos
           /\ videos' = written
           /\ UNCHANGED <<config_default_folder, _last_video_info>>
           /\ IF metadata_exists(video_id)
              THEN /\ metadata' =
                        [metadata EXCEPT ![video_id] =
                            add_file_content(@, file_type, base_filename, folder)]
                   /\ download_returns(thread, op, <<url, folder>>, TRUE, ret, <<>>)
                   /\ UNCHANGED thumbnails
              ELSE /\ metadata' =
                        IF DOMAIN _last_video_info = {} THEN metadata
                        ELSE Put(metadata, video_id,
                                 md_content(_last_video_info, folder,
                                            file_type, base_filename))
                   /\ \E saved_thumbnail \in
                            save_thumbnail_outcomes(thumbnails, video_id,
                                                    _last_video_info, None) :
                         /\ thumbnails' = saved_thumbnail.thumbnails
                         /\ download_returns(thread, op, <<url, folder>>, TRUE, ret,
                                        saved_thumbnail.fetched)

\* a download called directly: its result goes to the caller
download(op, url, folder, file_type, target_ext) ==
    download_by(0, op, url, folder, file_type, target_ext)

download_video(url, folder) == download("download_video", url, folder, "video", ".mp4")

download_audio(url, folder) == download("download_audio", url, folder, "audio", ".mp3")

-----------------------------------------------------------------------------
(* services/library.py: the library index, read from the records *)

\* _find_files_for_video_id: the media files named after the id or the
\* title, in the folders vs
_find_files_for_video_id(vs, video_id, title) ==
    LET hits == {Lower(SplitExt(n).ext) :
                    n \in {x \in UNION {DOMAIN vs[f] : f \in DOMAIN vs} :
                              \/ SplitExt(x).base = video_id
                              \/ title # "" /\ SplitExt(x).base = title}}
    IN  [has_video |-> hits \cap {".mp4", ".webm", ".mkv"} # {},
         has_audio |-> ".mp3" \in hits]

\* has_video and has_audio of an item: from the rows of its record, or from
\* the files found for a record without rows
files_found(files, vs, video_id, title) ==
    IF files = <<>> \/ (Len(files) = 1 /\ files[1].type = "-")
    THEN _find_files_for_video_id(vs, video_id, title)
    ELSE [has_video |-> \E k \in 1..Len(files) : files[k].type = "video",
          has_audio |-> \E k \in 1..Len(files) : files[k].type = "audio"]

\* the item built from the parsed record video_info, found being what
\* files_found gave and detected the platform of its URL
library_item_built(video_info, found, detected, thumbs, video_id) ==
    [id |-> video_id,
     video_id |-> video_id,
     title |-> video_info.title,
     url |-> video_info.url,
     tags |-> video_info.tags,
     files |-> video_info.files,
     has_video |-> found.has_video,
     has_audio |-> found.has_audio,
     link_only |-> ~found.has_video /\ ~found.has_audio,
     is_audio |-> found.has_audio /\ ~found.has_video,
     local_thumbnail |-> video_id \in DOMAIN thumbs,
     platform |-> IF video_info.platform \in {"", "other"} /\ detected # "other"
                  THEN detected ELSE video_info.platform]

library_item_parsed(video_info, vs, thumbs, video_id) ==
    library_item_built(video_info,
                       files_found(video_info.files, vs, video_id, video_info.title),
                       _detect_platform(video_info.url), thumbs, video_id)

\* the item _get_library_from_folder_structure builds from the record
\* <video_id>.md of text content, the folders being vs and the thumbnails
\* thumbs
library_item_of(content, vs, thumbs, video_id) ==
    library_item_parsed(parse_metadata(content), vs, thumbs, video_id)

library_item(video_id) == library_item_of(metadata[video_id], videos, thumbnails, video_id)

\* get_video_library(), as the set of its items
get_video_library == {library_item(video_id) : video_id \in DOMAIN metadata}

-----------------------------------------------------------------------------
(* The folder store on its own: SpecFolders *)

RawFolderNames == {"A", " B.", "<?>"}
FolderArgs == {Inbox, "A", "B"}
SettingsData == {("content_path" :> "root"), ("default_folder" :> "B"),
                 ("default_folder" :> "")}
DownloadNames == {"x.mp4"}
FileNames == {"x.mp4", "x_1.mp4"}

InitFolders ==
    /\ config_default_folder = Inbox
    /\ videos = (Inbox :> EmptyDir)
    /\ metadata = <<>>
    /\ thumbnails = <<>>
    /\ _last_video_info = NoInfo
    /\ last = Result("initialize_structure", <<>>, TRUE, "")
    /\ NoRequests

\* a media file arrives in a folder (the file part of a download)
file_downloaded(folder, filename) ==
    /\ Cardinality(Contents) < MaxFiles
    /\ videos' = engine_write(videos, folder, filename,
                              Min({c \in 1..MaxFiles : c \notin Contents}))
    /\ Return("file_downloaded", <<folder, filename>>, TRUE, "")
    /\ UNCHANGED <<config_default_folder, metadata, thumbnails, _last_video_info>>

NextFolders ==
    \/ \E name \in RawFolderNames : create_folder(name)
    \/ \E old_name \in FolderArgs, new_name \in RawFolderNames :
          rename_folder(old_name, new_name)
    \/ \E name \in FolderArgs : delete_folder(name)
    \/ \E filename \in FileNames, source_folder, target_folder \in FolderArgs :
          move_video(filename, source_folder, target_folder)
    \/ \E new_name \in RawFolderNames : rename_default_folder(new_name)
    \/ \E data \in SettingsData : save_settings(data)
    \/ \E folder \in FolderArgs, filename \in DownloadNames :
          file_downloaded(folder, filename)

SpecFolders == InitFolders /\ [][NextFolders]_vars

TypeFolders == /\ config_default_folder \in STRING
               /\ \A f \in DOMAIN videos : \A n \in DOMAIN videos[f] :
                      videos[f][n] \in (1..MaxFiles) \cup {SubDir}

-----------------------------------------------------------------------------
(* Claims about the folder store, checked under SpecFolders *)

\* the default folder's name as the configuration stores it
StoredDefault == IF config_default_folder = "" THEN Inbox ELSE config_default_folder

DirOf(vs, name) == IF name \in DOMAIN vs THEN vs[name] ELSE EmptyDir

\* new_name is filename itself or filename with _<k> before the extension
IsSuffixedName(new_name, filename) ==
    \/ new_name = filename
    \/ \E k \in 1..(MaxFiles + 1) :
          new_name = SplitExt(filename).base \o "_" \o ToString(k)
                     \o SplitExt(filename).ext

\* C5: when delete_folder(name) of a non-default folder holding N files
\* succeeds, the N files are in the default folder under pairwise distinct
\* names (the own name or a _k-suffixed one), the files that were in the
\* default folder are still there unchanged, and the folder is gone from
\* get_folders().
C5_DeleteMovesAllFiles ==
    [][(last'.op = "delete_folder" /\ last'.ok) =>
        LET name == last'.args[1]
            folder == videos[name]
            before == DirOf(videos, StoredDefault)
            after == DirOf(videos', StoredDefault)
            arrived == DOMAIN after \ DOMAIN before
        IN  /\ name # StoredDefault
            /\ \A e \in get_folders' : e.name # name
            /\ \A n \in DOMAIN before : n \in DOMAIN after /\ after[n] = before[n]
            /\ Cardinality(arrived) = Cardinality(DOMAIN folder)
            /\ \A n \in DOMAIN folder :
                  \E m \in arrived : after[m] = folder[n] /\ IsSuffixedName(m, n)
      ]_vars

\* a delete that moved a file whose name was taken in the default folder
C5_Witness ==
    /\ last.op = "delete_folder" /\ last.ok /\ last.ret = 1
    /\ FolderExists(default_folder)
    /\ {"x.mp4", "x_1.mp4"} \subseteq DOMAIN videos[default_folder]
    /\ videos[default_folder]["x_1.mp4"] = 2

\* C6: delete_folder and rename_folder called with the current default
\* folder's name fail and change neither the directory tree nor the stored
\* default-folder name.
C6_DefaultFolderProtected ==
    [][(last'.op \in {"delete_folder", "rename_folder"}
        /\ last'.args[1] = StoredDefault) =>
        /\ ~last'.ok
        /\ videos' = videos
        /\ config_default_folder' = config_default_folder
      ]_vars

\* a refused delete of a default folder that is not the sentinel one
C6_Witness ==
    /\ last.op = "delete_folder" /\ ~last.ok
    /\ last.args[1] = default_folder /\ default_folder # Inbox
    /\ FolderExists(default_folder) /\ Cardinality(DOMAIN videos) > 1

\* C7 as stated: rename_default_folder(new_name) with a name that is not
\* empty after sanitization always succeeds; afterwards the stored default
\* name is the sanitized name and a directory of that name exists.
C7_RenameDefaultAlwaysSucceeds ==
    [][(last'.op = "rename_default_folder"
        /\ _sanitize_folder_name(last'.args[1]) # "") =>
        /\ last'.ok
        /\ config_default_folder' = _sanitize_folder_name(last'.args[1])
        /\ _sanitize_folder_name(last'.args[1]) \in DOMAIN videos'
      ]_vars

\* C7 amended: with a name that is not empty after sanitization,
\* rename_default_folder is a success that changes nothing when the name is
\* the current default; it fails and changes nothing when the default
\* folder's directory exists and the new name is taken; in every other case
\* it succeeds, the stored default name is the sanitized name and a
\* directory of that name exists holding what the old directory held.
C7_RenameDefaultUnlessTaken ==
    [][(last'.op = "rename_default_folder"
        /\ _sanitize_folder_name(last'.args[1]) # "") =>
        LET new == _sanitize_folder_name(last'.args[1])
        IN  IF new = StoredDefault
            THEN last'.ok /\ videos' = videos
                 /\ config_default_folder' = config_default_folder
            ELSE IF StoredDefault \in DOMAIN videos /\ new \in DOMAIN videos
            THEN ~last'.ok /\ videos' = videos
                 /\ config_default_folder' = config_default_folder
            ELSE /\ last'.ok
                 /\ config_default_folder' = new
                 /\ new \in DOMAIN videos'
                 /\ StoredDefault \in DOMAIN videos => videos'[new] = videos[StoredDefault]
      ]_vars

\* a successful rename of the default folder while another folder exists
C7_Witness ==
    /\ last.op = "rename_default_folder" /\ last.ok /\ last.ret = "B"
    /\ config_default_folder = "B" /\ FolderExists("B") /\ FolderExists("A")

\* C8 as stated: get_folders() has exactly one entry with is_default
C8_ExactlyOneDefault ==
    Cardinality({e \in get_folders : e.is_default}) = 1

\* C9: create_folder(name) with a name that is not empty after sanitization
\* and not taken succeeds, returns the canonical name, and get_folders()
\* gains exactly the entry of that name with video_count 0; with a name that
\* is taken it fails and changes nothing.
C9_CreateAddsOneEmptyFolder ==
    [][(last'.op = "create_folder" /\ _sanitize_folder_name(last'.args[1]) # "") =>
        LET canonical == _sanitize_folder_name(last'.args[1])
            entry == [name |-> canonical, video_count |-> 0,
                      is_default |-> (canonical = StoredDefault)]
        IN  IF \E e \in get_folders : e.name = canonical
            THEN ~last'.ok /\ videos' = videos
                 /\ config_default_folder' = config_default_folder
            ELSE /\ last'.ok /\ last'.ret = canonical
                 /\ get_folders' = get_folders \cup {entry}
                 /\ Cardinality(get_folders') = Cardinality(get_folders) + 1
      ]_vars

\* a folder created from a name that needed sanitizing, next to a folder
\* that holds a file
C9_Witness ==
    /\ last.op = "create_folder" /\ last.ok /\ last.args[1] = " B." /\ last.ret = "B"
    /\ FolderExists("B") /\ videos["B"] = EmptyDir
    /\ \E e \in get_folders : e.video_count > 0

-----------------------------------------------------------------------------
(* The metadata repository on its own: SpecMeta *)

MetaIds == {"v1"}

\* an info bag as get_video_info leaves it in _last_video_info
Info(title, channel_url, tags, description) ==
    [url |-> "https://youtu.be/u1", title |-> title, thumbnail |-> "http://t/1.jpg",
     duration |-> 200, duration_str |-> "3:20", channel |-> "Chan",
     channel_url |-> channel_url, description |-> description, view_count |-> 1234,
     upload_date |-> "20240102", video_id |-> "v1", tags |-> tags,
     platform |-> "youtube"]

Infos == {Info("T", "http://c/1", <<"a", "b">>, "line one\n\nline two"),
          Info("T", "http://c/1", <<>>, "d"),
          Info("T", "", <<"a">>, "")}

FileKinds == {"video", "audio"}
FileRefNames == {"a.mp4", "b.mp4"}
FileRefFolders == {"F"}
TagLists == {<<>>, <<"x", "y">>}
Updates == {("title" :> "T2"), ("description" :> "new text"),
            ("title" :> "T2" @@ "description" :> "")}

InitMeta ==
    /\ config_default_folder = Inbox
    /\ videos = (Inbox :> EmptyDir)
    /\ metadata = <<>>
    /\ thumbnails = <<>>
    /\ _last_video_info = NoInfo
    /\ last = Result("initialize_structure", <<>>, TRUE, "")
    /\ NoRequests

NextMeta ==
    \/ \E video_id \in MetaIds, info \in Infos \cup {NoInfo}, folder \in {None, "F"} :
          \/ save_metadata(video_id, info, folder, None, None)
          \/ save_metadata(video_id, info, folder, "video", "a.mp4")
    \/ \E video_id \in MetaIds, file_type \in FileKinds, filename \in FileRefNames,
          folder \in FileRefFolders : add_file(video_id, file_type, filename, folder)
    \/ \E video_id \in MetaIds, file_type \in FileKinds : remove_file(video_id, file_type)
    \/ \E video_id \in MetaIds, updates \in Updates : update_metadata(video_id, updates)
    \/ \E video_id \in MetaIds, tags \in TagLists : update_tags(video_id, tags)
    \/ \E video_id \in MetaIds : mark_as_downloaded(video_id)
    \/ \E video_id \in MetaIds : delete_metadata(video_id)

SpecMeta == InitMeta /\ [][NextMeta]_vars

-----------------------------------------------------------------------------
(* Claims about the metadata repository, checked under SpecMeta *)

RowsOfKind(files, kind) == SelectSeq(files, LAMBDA f : f.type = kind)

\* C2: every record has at most one FileRef per kind (video, audio), and an
\* add_file of a kind that is already present leaves exactly one row of that
\* kind, the new filename and folder, and as many rows as there were.
C2_AtMostOneFileRefPerKind ==
    [][\A id \in DOMAIN metadata' :
         \E before \in {get_files(id)} : \E after \in {get_files_of(metadata'[id])} :
            /\ \A kind \in FileKinds : Len(RowsOfKind(after, kind)) <= 1
            /\ (/\ last'.op = "add_file" /\ last'.ok /\ last'.args[1] = id
                /\ RowsOfKind(before, last'.args[2]) # <<>>)
               => /\ RowsOfKind(after, last'.args[2]) =
                        <<[type |-> last'.args[2], filename |-> last'.args[3],
                           folder |-> last'.args[4]]>>
                  /\ Len(after) = Len(before)
      ]_vars

\* add_file of video b.mp4 on a record whose first row was a video already
C2_Witness ==
    /\ last.op = "add_file" /\ last.ok /\ last.args = <<"v1", "video", "b.mp4", "F">>
    /\ Len(get_files("v1")) = 2
    /\ get_files("v1")[1] = [type |-> "video", filename |-> "b.mp4", folder |-> "F"]
    /\ get_files("v1")[2].type = "audio"

\* the positions at which p starts in s, and at which p starts a line of s
Occurrences(s, p) == {i \in 1..Len(s) : StartsAt(s, p, i)}
LineStarts(s, p) == {i \in Occurrences(s, p) : i = 1 \/ Ch(s, i - 1) = "\n"}

\* the marks of the sections of a record, in the order of the template
SectionMarks == <<"# ", "## Basic Information\n", "| Item | Content |\n",
                  "## Tags\n", "## Files\n", "| Type | Filename | Folder |\n",
                  "## Links\n", "## Description\n", "*Downloaded: ">>

SectionsInOrder(content) ==
    /\ \A k \in 1..Len(SectionMarks) :
          Cardinality(LineStarts(content, SectionMarks[k])) = 1
    /\ \A k \in 1..(Len(SectionMarks) - 1) :
          \A i \in LineStarts(content, SectionMarks[k]) :
             \A j \in LineStarts(content, SectionMarks[k + 1]) : i < j

\* C3 as stated: every record holds every section (title heading, Basic
\* Information table, Tags, Files table, Links, Description, trailing
\* timestamp) exactly once and in that order.
C3_SectionsInOrder ==
    \A id \in DOMAIN metadata : SectionsInOrder(metadata[id])

ItemFields == {"title", "channel", "channel_url", "platform", "duration_str",
               "upload_date", "view_count", "description", "thumbnail", "url"}

ToSet(seq) == {seq[k] : k \in 1..Len(seq)}

\* C4 as stated: parse of the record that save has just written returns
\* every item field equal to the saved value, and the saved tags as a set.
C4_SaveParseRoundTrip ==
    (last.op = "save_metadata" /\ last.ok) =>
        LET saved == last.args[2]
            parsed == parse_metadata(metadata[last.args[1]])
        IN  /\ \A k \in ItemFields : k \in DOMAIN parsed /\ parsed[k] = saved[k]
            /\ ToSet(parsed.tags) = ToSet(saved.tags)

-----------------------------------------------------------------------------
(* The library as the downloader, the metadata repository and the folder
   store build it: SpecLib *)

LibUrls == {"https://youtu.be/u1"}
LibFolders == {Inbox, "A"}
LibIds == {video_id_of(url, Engine[url]) : url \in LibUrls}
LibTagLists == {<<"x", "y">>}

InitLib ==
    /\ config_default_folder = Inbox
    /\ videos = (Inbox :> EmptyDir)
    /\ metadata = <<>>
    /\ thumbnails = <<>>
    /\ _last_video_info = NoInfo
    /\ last = Result("initialize_structure", <<>>, TRUE, "")
    /\ NoRequests

NextLib ==
    \/ \E name \in {"A"} : create_folder(name)
    \/ \E url \in LibUrls : get_video_info(url)
    \/ \E url \in LibUrls : save_link_only(url, Inbox)
    \/ \E url \in LibUrls, folder \in LibFolders : download_video(url, folder)
    \/ \E video_id \in LibIds, file_type \in FileKinds :
          add_file(video_id, file_type, "a.mp4", "A")
    \/ \E video_id \in LibIds : remove_file(video_id, "video")
    \/ \E video_id \in LibIds, tags \in LibTagLists : update_tags(video_id, tags)
    \/ \E video_id \in LibIds : delete_metadata(video_id)

SpecLib == InitLib /\ [][NextLib]_vars

\* the folders under videos/ hold no entry
NoMediaFiles == \A f \in DOMAIN videos : videos[f] = EmptyDir

\* C10 as stated: an item whose record has zero FileRefs is listed with
\* link_only = true, and once add_file has succeeded on such a record the
\* same item is listed with link_only = false.
C10_LinkOnlyUntilAddFile ==
    [][\A id \in DOMAIN metadata :
          get_files(id) = <<>> =>
             /\ library_item(id).link_only
             /\ (last'.op = "add_file" /\ last'.ok /\ last'.args[1] = id) =>
                   /\ id \in DOMAIN metadata'
                   /\ ~library_item_of(metadata'[id], videos', thumbnails', id).link_only
      ]_vars

\* the FileRef names a file that lies in its folder under videos/
FileRefResolves(ref) ==
    /\ ref.folder \in DOMAIN videos
    /\ IsFile(videos[ref.folder], ref.filename)

\* C11 as stated: an item whose record names only files that do not exist
\* on disk is listed by get_video_library() with link_only = true.
C11_UnresolvableIsLinkOnly ==
    \A id \in DOMAIN metadata :
       (\A k \in 1..Len(get_files(id)) : ~FileRefResolves(get_files(id)[k]))
          => library_item(id).link_only

-----------------------------------------------------------------------------
(* The scenario of a link that is saved and downloaded later, from a fresh
   library: SpecScenario.  Folders are created first; the link is saved
   while the library is empty; the download of the saved URL follows and
   can be tried again after a failure or a cancellation. *)

ScenarioFolders == {Inbox, "A", "B"}

InitScenario ==
    /\ config_default_folder = Inbox
    /\ videos = (Inbox :> EmptyDir)
    /\ metadata = <<>>
    /\ thumbnails = <<>>
    /\ _last_video_info = NoInfo
    /\ last = Result("initialize_structure", <<>>, TRUE, "")
    /\ NoRequests

NextScenario ==
    \/ /\ metadata = <<>> /\ NoMediaFiles
       /\ \E name \in {"A"} : create_folder(name)
    \/ /\ metadata = <<>> /\ NoMediaFiles
       /\ \E url \in Urls, folder \in ScenarioFolders : save_link_only(url, folder)
    \/ /\ \/ last.op = "save_link_only" /\ last.ok
          \/ last.op = "download_video" /\ ~last.ok
       /\ \E folder \in ScenarioFolders : download_video(last.args[1], folder)

SpecScenario == InitScenario /\ [][NextScenario]_vars

\* C1: from an empty library, after a link-only save of URL U has created
\* record H the library lists exactly one item, H, with link_only = true and
\* no files; after a successful video download of U into folder F the
\* library still lists exactly one item, H, with link_only = false and the
\* one FileRef (video, X.mp4, F), X.mp4 being the downloaded file's name.
C1_LinkSaveThenDownload ==
    /\ (last.op = "save_link_only" /\ last.ok) =>
          \E item \in get_video_library :
             /\ get_video_library = {item}
             /\ item.video_id = last.ret.video_id
             /\ item.video_id = video_id_of(last.args[1], Engine[last.args[1]])
             /\ item.link_only
             /\ item.files = <<>>
    /\ (last.op = "download_video" /\ last.ok) =>
          \E item \in get_video_library :
             /\ get_video_library = {item}
             /\ item.video_id = last.ret.video_id
             /\ item.video_id = video_id_of(last.args[1], Engine[last.args[1]])
             /\ ~item.link_only
             /\ EndsWith(last.ret.filename, ".mp4")
             /\ item.files = <<[type |-> "video", filename |-> last.ret.filename,
                                folder |-> last.args[2]]>>

\* the link without an id of its own, downloaded into folder A
C1_Witness ==
    /\ last.op = "download_video" /\ last.ok
    /\ last.args = <<"https://x.test/u2", "A">>
    /\ FolderExists("A") /\ "X.mp4" \in DOMAIN videos["A"]
    /\ DOMAIN metadata = {"c6f6ebd1bce2"}
    /\ get_files("c6f6ebd1bce2") =
          <<[type |-> "video", filename |-> "X.mp4", folder |-> "A"]>>

-----------------------------------------------------------------------------
(* utils/streaming.py and routes/streaming.py: the streaming responder.
   A file is the sequence of its bytes; a generator is the position of its
   file handle, the bytes it still has to read and whether it has run. *)

\* int(s) for the strings the model draws (surrounding blanks and a plus
\* sign are accepted, anything else but decimal digits raises ValueError)
IntText(s) == LET t == Strip(s) IN IF StartsWith(t, "+") THEN From(t, 2) ELSE t

IsInt(s) ==
    /\ IntText(s) # ""
    /\ \A k \in 1..Len(IntText(s)) : Contains(Digits, Ch(IntText(s), k))

RECURSIVE IntFrom(_, _)
IntFrom(t, k) ==
    IF k = 0 THEN 0 ELSE 10 * IntFrom(t, k - 1) + (Find(Digits, Ch(t, k), 1) - 1)

int(s) == IntFrom(IntText(s), Len(IntText(s)))

\* the chunk size of both responders
ChunkSize == 8192

\* parse_range_header(range_header, file_size); raised is the ValueError of
\* int()
parse_range_header(range_header, file_size) ==
    LET range_spec == Split(ReplaceAll(range_header, "bytes=", ""), "-")
        has_start == range_spec[1] # ""
        has_end == Len(range_spec) > 1 /\ range_spec[2] # ""
        byte_start == IF has_start THEN int(range_spec[1]) ELSE 0
        byte_end == IF has_end THEN int(range_spec[2]) ELSE file_size - 1
    IN  IF (has_start /\ ~IsInt(range_spec[1])) \/ (has_end /\ ~IsInt(range_spec[2]))
        THEN [raised |-> TRUE, byte_start |-> 0, byte_end |-> 0, length |-> 0]
        ELSE [raised |-> FALSE, byte_start |-> byte_start, byte_end |-> byte_end,
              length |-> byte_end - byte_start + 1]

\* the generator object of generate_file_chunks(filepath, byte_start,
\* length, chunk_size) before its first next()
NoGenerator == [state |-> "none", pos |-> 0, remaining |-> 0, chunk_size |-> 0]

generate_file_chunks(byte_start, length, chunk_size) ==
    [state |-> "suspended", pos |-> byte_start, remaining |-> length,
     chunk_size |-> chunk_size]

\* f.read(n) at offset pos of the bytes data
ReadAt(data, pos, n) == SubSeq(data, pos + 1, Min({pos + n, Len(data)}))

\* get_mimetype_for_file(filepath) of utils/streaming.py
MimeTypes ==
    (".mp4" :> "video/mp4") @@ (".webm" :> "video/webm") @@
    (".mkv" :> "video/x-matroska") @@ (".mp3" :> "audio/mpeg") @@
    (".m4a" :> "audio/mp4") @@ (".wav" :> "audio/wav") @@
    (".ogg" :> "audio/ogg") @@ (".flac" :> "audio/flac")

get_mimetype_for_file_exact(filepath) ==
    LET ext == SplitExt(filepath).ext
    IN  IF ext \in DOMAIN MimeTypes THEN MimeTypes[ext] ELSE "application/octet-stream"

get_mimetype_for_file(filepath) ==
    LET ext == Lower(SplitExt(filepath).ext)
    IN  IF ext \in DOMAIN MimeTypes THEN MimeTypes[ext] ELSE "application/octet-stream"

\* get_mimetype(file_path) of routes/streaming.py
get_mimetype(file_path) ==
    IF EndsWith(file_path, ".mp3") THEN "audio/mpeg"
    ELSE IF EndsWith(file_path, ".webm") THEN "video/webm"
    ELSE IF EndsWith(file_path, ".mkv") THEN "video/x-matroska"
    ELSE "video/mp4"

\* what a responder answers: the descriptor of stream_video_with_range, or
\* the Response of the route with its Content-Range and Content-Length
Response(op, range_header, status, exists, mimetype, is_range_request, byte_start, byte_end, length, generator, body) ==
    [op |-> op, range_header |-> range_header, status |-> status,
     exists |-> exists, file_size |-> IF exists THEN Len(stream_file.data) ELSE 0,
     mimetype |-> mimetype, is_range_request |-> is_range_request,
     byte_start |-> byte_start, byte_end |-> byte_end, length |-> length,
     generator |-> generator, body |-> body, chunks |-> 0]

Raised(op, range_header) ==
    Response(op, range_header, 500, TRUE, "", FALSE, 0, 0, 0, NoGenerator, <<>>)

Unchanged_store ==
    UNCHANGED <<config_default_folder, videos, metadata, thumbnails,
                _last_video_info, last, stream_file, fetched,
                writers, progress_store, threads, mtimes, _cancel_flag>>

\* stream_video_with_range(filepath, range_header, chunk_size) of
\* utils/streaming.py, filepath being the path of stream_file; the status is
\* the one its caller answers with
stream_video_with_range(range_header, chunk_size) ==
    LET op == "stream_video_with_range"
        filepath == stream_file.path
        file_size == Len(stream_file.data)
        mimetype == get_mimetype_for_file(filepath)
        range == parse_range_header(range_header, file_size)
    IN  /\ response' =
              IF ~stream_file.exists
              THEN Response(op, range_header, 404, FALSE, "", FALSE, 0, 0, 0,
                            NoGenerator, <<>>)
              ELSE IF range_header # None
              THEN IF range.raised THEN Raised(op, range_header)
                   ELSE Response(op, range_header, 206, TRUE, mimetype, TRUE,
                                 range.byte_start, range.byte_end, range.length,
                                 generate_file_chunks(range.byte_start, range.length,
                                                      chunk_size),
                                 <<>>)
              ELSE Response(op, range_header, 200, TRUE, mimetype, FALSE,
                            0, file_size - 1, file_size, NoGenerator, <<>>)
        /\ Unchanged_store

\* stream_file_with_range(file_path, range_header, file_size) of
\* routes/streaming.py; match[1] raises IndexError when the header has no
\* dash
stream_file_with_range(op, range_header) ==
    LET match == Split(ReplaceAll(range_header, "bytes=", ""), "-")
        range == parse_range_header(range_header, Len(stream_file.data))
    IN  IF Len(match) < 2 \/ range.raised THEN Raised(op, range_header)
        ELSE Response(op, range_header, 206, TRUE, get_mimetype(stream_file.path), TRUE,
                      range.byte_start, range.byte_end, range.length,
                      generate_file_chunks(range.byte_start, range.length, ChunkSize),
                      <<>>)

\* the route stream_video_from_folder(folder, video_id) with the Range
\* header range_header, stream_file being <folder>/<video_id><ext>: the
\* route finds it when ext is one of the four it tries
stream_video_from_folder(range_header) ==
    LET op == "stream_video_from_folder"
        found == /\ stream_file.exists
                 /\ SplitExt(stream_file.path).ext \in {".mp4", ".webm", ".mkv", ".mp3"}
        file_size == Len(stream_file.data)
    IN  /\ response' =
              IF ~found
              THEN Response(op, range_header, 404, FALSE, "", FALSE, 0, 0, 0,
                            NoGenerator, <<>>)
              ELSE IF range_header # None
              THEN stream_file_with_range(op, range_header)
              ELSE Response(op, range_header, 200, TRUE, get_mimetype(stream_file.path),
                            FALSE, 0, file_size - 1, file_size, NoGenerator,
                            stream_file.data)
        /\ Unchanged_store

\* next() on the generator of the response: one turn of the loop of
\* generate_file_chunks
next_chunk ==
    LET g == response.generator
        chunk == ReadAt(stream_file.data, g.pos, Min({g.chunk_size, g.remaining}))
    IN  /\ response.op # ""
        /\ g.state = "suspended"
        /\ response' =
              IF g.remaining > 0 /\ chunk # <<>>
              THEN [response EXCEPT
                       !.generator = [g EXCEPT !.pos = g.pos + Len(chunk),
                                               !.remaining = g.remaining - Len(chunk)],
                       !.body = @ \o chunk,
                       !.chunks = @ + 1]
              ELSE [response EXCEPT !.generator = [g EXCEPT !.state = "exhausted"]]
        /\ Unchanged_store

-----------------------------------------------------------------------------
(* The streaming responder on its own: SpecStream.  The file is fixed by
   Init; requests follow one another, each replacing the response of the
   one before, and the generator of a range response is pulled chunk by
   chunk. *)

\* the largest file size and the largest bound of a Range header drawn
MaxFileSize == 3
MaxRange == 4

\* the bytes of a file of size n: the byte at offset k is k + 1
Bytes(n) == [k \in 1..n |-> k]

StreamPaths == {"a.mp4", "B.MP3", "c.bin"}

StreamFiles ==
    {[path |-> p, exists |-> TRUE, data |-> Bytes(n)] :
        p \in StreamPaths, n \in 0..MaxFileSize}
    \cup {[path |-> "a.mp4", exists |-> FALSE, data |-> <<>>]}

RangeBounds == {""} \cup {ToString(n) : n \in 0..MaxRange}

\* the values of the Range header: absent, bytes=<s>-<e> with either bound
\* omitted, one without a dash and a multi-range one
RangeHeaders ==
    {None} \cup {"bytes=" \o a \o "-" \o b : a, b \in RangeBounds}
    \cup {"bytes=1", "bytes=0-1,2-3"}

ChunkSizes == {2, ChunkSize}

InitStream ==
    /\ config_default_folder = Inbox
    /\ videos = (Inbox :> EmptyDir)
    /\ metadata = <<>>
    /\ thumbnails = <<>>
    /\ _last_video_info = NoInfo
    /\ last = Result("initialize_structure", <<>>, TRUE, "")
    /\ stream_file \in StreamFiles
    /\ response = NoResponse /\ fetched = <<>>
    /\ writers = NoWriters /\ progress_store = IdleProgress /\ threads = NoThreads
    /\ mtimes = <<>> /\ _cancel_flag = FALSE

NextStream ==
    \/ \E range_header \in RangeHeaders, chunk_size \in ChunkSizes :
          stream_video_with_range(range_header, chunk_size)
    \/ \E range_header \in RangeHeaders : stream_video_from_folder(range_header)
    \/ next_chunk

SpecStream == InitStream /\ [][NextStream]_vars

\* the bounds <s> and <e> of a header of the form bytes=<s>-<e>
HeaderBounds(range_header) == Split(From(range_header, Len("bytes=") + 1), "-")

IsSingleRange(range_header) ==
    /\ StartsWith(range_header, "bytes=")
    /\ Len(HeaderBounds(range_header)) = 2
    /\ \A k \in 1..2 : HeaderBounds(range_header)[k] \in RangeBounds

\* C12 as stated: for a file of size N and a header bytes=<s>-<e>, either
\* bound omitted or not, the responder reports start = s (0 if omitted),
\* end = e (N-1 if omitted) and length = end - start + 1, and once its
\* generator is exhausted the body is the file's bytes start..end, exactly
\* length of them.
C12_RangeBodyMatchesLength ==
    (response.op # "" /\ stream_file.exists /\ response.exists
        /\ IsSingleRange(response.range_header)) =>
       LET N == Len(stream_file.data)
           b == HeaderBounds(response.range_header)
           s == IF b[1] = "" THEN 0 ELSE int(b[1])
           e == IF b[2] = "" THEN N - 1 ELSE int(b[2])
       IN  /\ response.status = 206
           /\ response.byte_start = s
           /\ response.byte_end = e
           /\ response.length = e - s + 1
           /\ response.file_size = N
           /\ response.generator.state = "exhausted" =>
                 /\ Len(response.body) = response.length
                 /\ response.body = [k \in 1..(e - s + 1) |-> s + k]

\* the responder serves the file: it exists and, for the route, it has one
\* of the extensions the route looks for
Served ==
    /\ stream_file.exists
    /\ response.op = "stream_video_from_folder" =>
          SplitExt(stream_file.path).ext \in {".mp4", ".webm", ".mkv", ".mp3"}

\* the MIME types of the extensions of StreamPaths
ExpectedMime ==
    ("a.mp4" :> "video/mp4") @@ ("B.MP3" :> "audio/mpeg") @@
    ("c.bin" :> "application/octet-stream")

\* C13: for an existing file of size N a request without a Range header
\* gets a non-range outcome of status 200, of length N, covering the bytes
\* 0..N-1, with the MIME type of the extension, and neither a
\* partial-content descriptor nor a chunk generator.
C13_NoRangeIsFullFile ==
    (response.op # "" /\ response.range_header = None /\ Served) =>
       LET N == Len(stream_file.data)
       IN  /\ response.status = 200
           /\ response.exists
           /\ ~response.is_range_request
           /\ response.file_size = N
           /\ response.length = N
           /\ response.byte_start = 0
           /\ response.byte_end = N - 1
           /\ response.mimetype = ExpectedMime[stream_file.path]
           /\ response.generator = NoGenerator
           /\ response.chunks = 0
           /\ response.op = "stream_video_from_folder" =>
                 response.body = stream_file.data

\* a file with an upper-case extension, asked for without a Range header
C13_Witness ==
    /\ response.op = "stream_video_with_range"
    /\ response.range_header = None
    /\ stream_file.exists /\ stream_file.path = "B.MP3"
    /\ Len(stream_file.data) > 0
    /\ response.status = 200 /\ response.length = Len(stream_file.data)

-----------------------------------------------------------------------------
(* services/library.py: get_all_tags, and the tags of the records on their
   own: SpecTags *)

\* the characters the records can hold, in the order of their code points
Ascii ==
    "\n !\"#$%&'()*+,-./0123456789:;<=>?@ABCDEFGHIJKLMNOPQRSTUVWXYZ[\\]^_abcdefghijklmnopqrstuvwxyz{|}~"

\* a <= b for Python strings
StrLeq(a, b) ==
    LET n == Min({Len(a), Len(b)})
        d == {i \in 1..n : Ch(a, i) # Ch(b, i)}
    IN  IF d = {} THEN Len(a) <= Len(b)
        ELSE Find(Ascii, Ch(a, Min(d)), 1) < Find(Ascii, Ch(b, Min(d)), 1)

\* sorted(list(S))
RECURSIVE Sorted(_)
Sorted(S) ==
    IF S = {} THEN <<>>
    ELSE LET least == CHOOSE x \in S : \A y \in S : StrLeq(x, y)
         IN  <<least>> \o Sorted(S \ {least})

\* get_all_tags() over the records md
get_all_tags_of(md) ==
    Sorted(UNION {ToSet(parse_metadata(md[video_id]).tags) : video_id \in DOMAIN md})

get_all_tags == get_all_tags_of(metadata)

TagIds == {"v1", "v2"}
TagSets == {<<>>, <<"a", "b">>, <<"b", "c">>}
TagInfos == {Info("T", "http://c/1", tags, "d") : tags \in TagSets}

InitTags ==
    /\ config_default_folder = Inbox
    /\ videos = (Inbox :> EmptyDir)
    /\ metadata = <<>>
    /\ thumbnails = <<>>
    /\ _last_video_info = NoInfo
    /\ last = Result("initialize_structure", <<>>, TRUE, "")
    /\ NoRequests

NextTags ==
    \/ \E video_id \in TagIds, info \in TagInfos :
          save_metadata(video_id, info, "F", None, None)
    \/ \E video_id \in TagIds, tags \in TagSets : update_tags(video_id, tags)
    \/ \E video_id \in TagIds : add_file(video_id, "video", "a.mp4", "F")
    \/ \E video_id \in TagIds : delete_metadata(video_id)

SpecTags == InitTags /\ [][NextTags]_vars

\* the tags that the step to the record of text after gives the record
\* video_id: those of the call when it is a save or an update_tags of that
\* record, those the record of text before had otherwise
TagsGiven(video_id, step, before) ==
    IF step.ok /\ step.op = "save_metadata" /\ step.args[1] = video_id
    THEN ToSet(step.args[2].tags)
    ELSE IF step.ok /\ step.op = "update_tags" /\ step.args[1] = video_id
    THEN ToSet(step.args[2])
    ELSE ToSet(parse_metadata(before).tags)

\* C14 as stated: get_all_tags() is the sorted, duplicate-free union of the
\* tag sets of the records as they were saved or last set by update_tags:
\* every step leaves each record with the tags it was given (or had), also
\* when they are none, and no other string appears in the result; the sets
\* {a,b} and {b,c} give [a, b, c].
C14_AllTagsIsUnionOfGiven ==
    [][/\ \A video_id \in DOMAIN metadata' :
             ToSet(parse_metadata(metadata'[video_id]).tags) =
                TagsGiven(video_id, last',
                          IF video_id \in DOMAIN metadata THEN metadata[video_id]
                          ELSE metadata'[video_id])
       /\ \E all \in {get_all_tags_of(metadata')} :
             /\ ToSet(all) \subseteq UNION {ToSet(tags) : tags \in TagSets}
             /\ \A i, j \in 1..Len(all) : i < j => all[i] # all[j] /\ StrLeq(all[i], all[j])
             /\ (\E x, y \in DOMAIN metadata' :
                    /\ TagsGiven(x, last', metadata'[x]) = {"a", "b"}
                    /\ TagsGiven(y, last', metadata'[y]) = {"b", "c"}
                    /\ DOMAIN metadata' = {x, y})
                => all = <<"a", "b", "c">>
      ]_vars

-----------------------------------------------------------------------------
(* services/thumbnail.py and routes/folders.py: the thumbnail cache and the
   removal of an item *)

\* ThumbnailService.save_thumbnail(video_id, info, thumbnail_url), called
\* on its own
save_thumbnail(video_id, info, thumbnail_url) ==
    \E saved_thumbnail \in save_thumbnail_outcomes(thumbnails, video_id, info, thumbnail_url) :
       /\ thumbnails' = saved_thumbnail.thumbnails
       /\ ReturnAfter("save_thumbnail", <<video_id, info, thumbnail_url>>,
                      saved_thumbnail.ret # None, saved_thumbnail.ret,
                      saved_thumbnail.fetched)
       /\ UNCHANGED <<config_default_folder, videos, metadata, _last_video_info>>

\* ThumbnailService.delete_thumbnail(video_id)
delete_thumbnail(video_id) ==
    /\ thumbnails' = IF thumbnail_exists(thumbnails, video_id)
                     THEN Drop(thumbnails, video_id) ELSE thumbnails
    /\ Return("delete_thumbnail", <<video_id>>, thumbnail_exists(thumbnails, video_id),
              thumbnail_exists(thumbnails, video_id))
    /\ UNCHANGED <<config_default_folder, videos, metadata, _last_video_info>>

RemoveFile_kept(vs, folder, name) == vs

\* os.remove of <folder>/<name> when it is a file
RemoveFile(vs, folder, name) ==
    IF folder \in DOMAIN vs /\ IsFile(vs[folder], name)
    THEN [vs EXCEPT ![folder] = Drop(@, name)] ELSE vs

\* the FileRefs files[k..] removed from the folders vs
RECURSIVE RemoveReferenced(_, _, _)
RemoveReferenced(vs, files, k) ==
    IF k > Len(files) THEN vs
    ELSE RemoveReferenced(
            IF files[k].filename # "" THEN RemoveFile(vs, files[k].folder, files[k].filename)
            ELSE vs,
            files, k + 1)

\* the files <folder>/<base><ext> of the four extensions removed
RECURSIVE RemoveAlternatives(_, _, _, _)
RemoveAlternatives(vs, folder, base_name, exts) ==
    IF exts = <<>> THEN vs
    ELSE RemoveAlternatives(RemoveFile(vs, folder, base_name \o exts[1]),
                            folder, base_name, SubSeq(exts, 2, Len(exts)))

\* the files under the folders vs, as <<folder, name>>
FilesIn(vs) ==
    {p \in (DOMAIN vs) \X UNION {DOMAIN vs[g] : g \in DOMAIN vs} : IsFile(vs[p[1]], p[2])}

\* the video_id that delete_video works on: the one given, or the filename
\* without its extension
deleted_video_id(video_id_given, filename) ==
    IF video_id_given = "" /\ filename # "" THEN SplitExt(filename).base
    ELSE video_id_given

\* the route delete_video with the request {video_id, folder, filename}
delete_video(video_id_given, folder, filename) ==
    LET args == <<video_id_given, folder, filename>>
        video_id == deleted_video_id(video_id_given, filename)
        by_record == RemoveReferenced(videos, get_files(video_id), 1)
        by_name == IF filename # "" /\ folder # ""
                   THEN RemoveAlternatives(RemoveFile(by_record, folder, filename), folder,
                                           SplitExt(filename).base,
                                           <<".mp4", ".mp3", ".webm", ".mkv">>)
                   ELSE by_record
    IN  IF video_id = ""
        THEN /\ Return("delete_video", args, FALSE, "video_id or filename is required")
             /\ Unchanged_library
             /\ UNCHANGED _last_video_info
        ELSE /\ videos' = by_name
             /\ thumbnails' = IF thumbnail_exists(thumbnails, video_id)
                              THEN Drop(thumbnails, video_id) ELSE thumbnails
             /\ metadata' = IF metadata_exists(video_id)
                            THEN Drop(metadata, video_id) ELSE metadata
             /\ Return("delete_video", args, TRUE,
                       [deleted_files |-> Cardinality(FilesIn(videos) \ FilesIn(by_name))])
             /\ UNCHANGED <<config_default_folder, _last_video_info>>

-----------------------------------------------------------------------------
(* One item through its life: SpecItem.  The link of the item is saved, its
   video and audio are downloaded, thumbnails are saved and deleted on
   their own, rows are added to the record, and the item is removed. *)

ItemUrl == "https://youtu.be/u1"
ItemId == "v1"
ThumbnailUrls == {None, "http://t/1.jpg", "http://t/2.jpg"}

InitItem ==
    /\ config_default_folder = Inbox
    /\ videos = (Inbox :> EmptyDir)
    /\ metadata = <<>>
    /\ thumbnails = <<>>
    /\ _last_video_info = NoInfo
    /\ last = Result("initialize_structure", <<>>, TRUE, "")
    /\ NoRequests

NextItem ==
    \/ get_video_info(ItemUrl)
    \/ save_link_only(ItemUrl, Inbox)
    \/ download_video(ItemUrl, Inbox)
    \/ download_audio(ItemUrl, Inbox)
    \/ \E info \in {NoInfo, video_info_of(ItemUrl, Engine[ItemUrl])},
          thumbnail_url \in ThumbnailUrls : save_thumbnail(ItemId, info, thumbnail_url)
    \/ delete_thumbnail(ItemId)
    \/ add_file(ItemId, "video", "a.mp4", "A")
    \/ \E request \in {<<ItemId, "", "">>, <<ItemId, Inbox, "T.mp4">>,
                       <<"", Inbox, "v1.mp4">>, <<"", "", "">>} :
          delete_video(request[1], request[2], request[3])

SpecItem == InitItem /\ [][NextItem]_vars

\* the call step saves a thumbnail for video_id: a save on its own, or the
\* one a link save or a download makes for the item of its URL
SavesThumbnailFor(step, video_id) ==
    \/ step.op = "save_thumbnail" /\ step.args[1] = video_id
    \/ /\ step.op \in {"save_link_only", "download_video", "download_audio"}
       /\ video_id_of(step.args[1], Engine[step.args[1]]) = video_id

\* the call step deletes the thumbnail of video_id
DeletesThumbnailOf(step, video_id) ==
    \/ step.op = "delete_thumbnail" /\ step.args[1] = video_id
    \/ /\ step.op = "delete_video" /\ step.ok
       /\ deleted_video_id(step.args[1], step.args[3]) = video_id

\* C15: once a cached image exists for a video_id, every later save of a
\* thumbnail for it, with any URL, on its own or within a link save or a
\* download, requests nothing from the network, returns the existing path
\* and leaves the cached bytes as they are, until the thumbnail is deleted.
C15_CachedThumbnailIsKept ==
    [][\A video_id \in DOMAIN thumbnails :
          ~DeletesThumbnailOf(last', video_id) =>
             /\ video_id \in DOMAIN thumbnails'
             /\ thumbnails'[video_id] = thumbnails[video_id]
             /\ SavesThumbnailFor(last', video_id) =>
                   /\ fetched' = <<>>
                   /\ (/\ last'.op = "save_thumbnail"
                       /\ \/ last'.args[3] # None
                          \/ Get(last'.args[2], "thumbnail", "") # "")
                      => last'.ok /\ last'.ret = video_id \o ".jpg"
      ]_vars

\* a save with another URL than the one the cached image came from
C15_Witness ==
    /\ last.op = "save_thumbnail"
    /\ last.args = <<ItemId, NoInfo, "http://t/2.jpg">>
    /\ last.ok /\ last.ret = "v1.jpg"
    /\ fetched = <<>>
    /\ ItemId \in DOMAIN thumbnails
    /\ thumbnails[ItemId] = Image("http://t/1.jpg")

\* C16: after delete_video has reported success for a video_id, the record
\* of the item, its cached thumbnail and every file that the FileRefs of
\* the record named are gone, and get_video_library() does not list the
\* item.
C16_RemovalCascades ==
    [][(last'.op = "delete_video" /\ last'.ok) =>
          LET video_id == deleted_video_id(last'.args[1], last'.args[3])
              files == get_files(video_id)
          IN  /\ video_id \notin DOMAIN metadata'
              /\ video_id \notin DOMAIN thumbnails'
              /\ \A k \in 1..Len(files) :
                    ~(/\ files[k].folder \in DOMAIN videos'
                      /\ IsFile(videos'[files[k].folder], files[k].filename))
              /\ \A v \in DOMAIN metadata' :
                    library_item_of(metadata'[v], videos', thumbnails', v).video_id
                       # video_id
      ]_vars

\* an item with a thumbnail, a video and an audio file has been removed
C16_Witness ==
    /\ last.op = "delete_video" /\ last.ok
    /\ last.args = <<ItemId, "", "">>
    /\ last.ret.deleted_files = 2
    /\ metadata = <<>> /\ thumbnails = <<>> /\ NoMediaFiles

-----------------------------------------------------------------------------
(* services/metadata.py under concurrent requests: SpecWriters.  The server
   handles each request in a thread of its own and the record has no lock,
   so a call that rewrites a record is a sequence of steps: it reads the
   text, add_file reads the file once more through get_files, open(path,
   'w') empties the file, and the close writes the new text. *)

WriterId == "v1"

\* the calls the writers make: the first one adds the video row, the second
\* one adds the audio row or updates the title
AddVideo == [op |-> "add_file", args |-> <<WriterId, "video", "a.mp4", "F">>]
AddAudio == [op |-> "add_file", args |-> <<WriterId, "audio", "a.mp3", "F">>]
UpdateTitle == [op |-> "update_metadata", args |-> <<WriterId, ("title" :> "T2")>>]

WriterCalls == (1 :> {AddVideo}) @@ (2 :> {AddAudio, UpdateTitle})

Writer(pc, call, ok, content, files) ==
    [pc |-> pc, call |-> call, ok |-> ok, content |-> content, files |-> files]

Unchanged_by_writer ==
    UNCHANGED <<config_default_folder, videos, thumbnails, _last_video_info,
                stream_file, response, fetched, progress_store, threads, mtimes,
                _cancel_flag>>

\* the call starts: os.path.exists, then the read of the text
writer_open(w, call) ==
    /\ writers[w].pc \in {"idle", "done"}
    /\ IF ~metadata_exists(call.args[1])
       THEN /\ writers' = [writers EXCEPT ![w] = Writer("done", call, FALSE, "", <<>>)]
            /\ last' = Result(call.op, call.args, FALSE, FALSE)
       ELSE /\ writers' = [writers EXCEPT ![w] =
                              Writer("read", call, FALSE, metadata[call.args[1]], <<>>)]
            /\ UNCHANGED last
    /\ UNCHANGED metadata
    /\ Unchanged_by_writer

\* files = self.get_files(video_id) of add_file: a second read of the file
writer_get_files(w) ==
    /\ writers[w].pc = "read"
    /\ writers[w].call.op = "add_file"
    /\ writers' = [writers EXCEPT ![w].pc = "listed",
                                  ![w].files = get_files(writers[w].call.args[1])]
    /\ UNCHANGED <<metadata, last>>
    /\ Unchanged_by_writer

\* open(md_path, 'w'): the file is empty until the text is flushed
writer_truncate(w) ==
    /\ \/ writers[w].pc = "listed"
       \/ writers[w].pc = "read" /\ writers[w].call.op = "update_metadata"
    /\ writers' = [writers EXCEPT ![w].pc = "truncated"]
    /\ metadata' = Put(metadata, writers[w].call.args[1], "")
    /\ UNCHANGED last
    /\ Unchanged_by_writer

written_text_stale(wr) == wr.content

\* the text the call writes, computed from what it read
written_text(wr) ==
    IF wr.call.op = "add_file"
    THEN add_file_text(wr.content, wr.files, wr.call.args[2], wr.call.args[3],
                       wr.call.args[4])
    ELSE update_metadata_content(wr.content, wr.call.args[2])

\* f.write(content) and the close of the file; the call returns True
writer_close(w) ==
    /\ writers[w].pc = "truncated"
    /\ metadata' = Put(metadata, writers[w].call.args[1], written_text(writers[w]))
    /\ writers' = [writers EXCEPT ![w].pc = "done", ![w].ok = TRUE]
    /\ last' = Result(writers[w].call.op, writers[w].call.args, TRUE, TRUE)
    /\ Unchanged_by_writer

InitWriters ==
    /\ config_default_folder = Inbox
    /\ videos = (Inbox :> EmptyDir)
    /\ metadata = <<>>
    /\ thumbnails = <<>>
    /\ _last_video_info = NoInfo
    /\ last = Result("initialize_structure", <<>>, TRUE, "")
    /\ NoRequests

NextWriters ==
    \/ /\ metadata = <<>>
       /\ save_metadata(WriterId, Info("T", "http://c/1", <<"a">>, "d"), "F", None, None)
    \/ \E w \in Writers : \E call \in WriterCalls[w] : writer_open(w, call)
    \/ \E w \in Writers : writer_get_files(w)
    \/ \E w \in Writers : writer_truncate(w)
    \/ \E w \in Writers : writer_close(w)

SpecWriters == InitWriters /\ [][NextWriters]_vars

\* the title heading of a record, "" when it has none
DocTitle(content) ==
    IF SearchHeading(content).found THEN Group(content, SearchHeading(content)) ELSE ""

\* C17: writers of one record are not serialized, and the document a writer
\* leaves is the whole document it computed from what it had read: the rows
\* are those its get_files returned with its own entry put in (add_file) or
\* those of the text it read (update_metadata), and the title is the one of
\* the text it read or the one it sets, whatever another writer has written
\* since that read.
C17_LastWriterWins ==
    [][\A w \in Writers :
          (writers[w].pc = "truncated" /\ writers'[w].pc = "done") =>
             LET wr == writers[w]
                 doc == metadata'[wr.call.args[1]]
             IN  IF wr.call.op = "add_file"
                 THEN /\ DocTitle(doc) = DocTitle(wr.content)
                      /\ FilesMatch(wr.content).found =>
                            get_files_of(doc) =
                               put_file(wr.files, wr.call.args[2], wr.call.args[3],
                                        wr.call.args[4])
                 ELSE /\ get_files_of(doc) = get_files_of(wr.content)
                      /\ SearchHeading(wr.content).found =>
                            DocTitle(doc) = wr.call.args[2]["title"]
      ]_vars

\* both add_file calls have returned True and the video row is lost
C17_Witness ==
    /\ writers[1].pc = "done" /\ writers[1].ok /\ writers[1].call = AddVideo
    /\ writers[2].pc = "done" /\ writers[2].ok /\ writers[2].call = AddAudio
    /\ metadata_exists(WriterId)
    /\ get_files(WriterId) = <<[type |-> "audio", filename |-> "a.mp3", folder |-> "F"]>>

-----------------------------------------------------------------------------
(* routes/download.py, routes/shared.py, services/downloader.py: a download
   started over /api/download runs in a background thread of its own.  The
   route resets the one module-level progress_store and starts the thread
   without looking at the threads already running; the thread's progress
   hook, the end of its download and its completion callback all update
   the same progress_store. *)

\* the store reset_progress_store leaves
KoStarting == "{ko:download starting...}"
reset_progress_store ==
    [status |-> "starting", progress |-> 0, message |-> KoStarting,
     filename |-> "", filepath |-> ""]

\* the events the engine reports to DownloadProgress.hook while it downloads
HookEvents == {"downloading", "finished", "error"}

\* what the hook passes to its callback for an event of the download of url
hook(d, url) ==
    IF d = "downloading"
    THEN [status |-> "downloading", progress |-> 50, speed |-> "", eta |-> "",
          filename |-> prepare_filename(Engine[url])]
    ELSE IF d = "finished"
    THEN [status |-> "processing", progress |-> 100, message |-> "Processing file..."]
    ELSE [status |-> "error", message |-> "Unknown error"]

\* the store after on_complete(result)
KoCompleted == "{ko:download completed!}"
on_complete(store, result) ==
    IF result.success
    THEN update_progress_store_data(store,
            [status |-> "completed", progress |-> 100, message |-> KoCompleted,
             filename |-> result.filename, filepath |-> result.filepath])
    ELSE update_progress_store_data(store,
            [status |-> "error", message |-> result.error])

\* the thread slot download_async takes: threading.Thread never refuses one
free_task == Min({t \in Tasks : threads[t].pc = "idle"})

\* POST /api/download while a download is running answers with an error
start_download_rejecting(url, download_type, folder) ==
    /\ Unchanged_library
    /\ UNCHANGED <<_last_video_info, stream_file, response, writers, mtimes,
                   _cancel_flag>>
    /\ fetched' = <<>>
    /\ IF url = "" \/ \E t \in Tasks : threads[t].pc # "idle"
       THEN /\ last' = Result("start_download", <<url, download_type, folder>>,
                              FALSE, "error")
            /\ UNCHANGED <<progress_store, threads>>
       ELSE /\ progress_store' = reset_progress_store
            /\ threads' = [threads EXCEPT ![free_task] =
                              Task("running", url, download_type, folder, None)]
            /\ last' = Result("start_download", <<url, download_type, folder>>,
                              TRUE, "started")

\* POST /api/download
start_download(url, download_type, folder) ==
    /\ Unchanged_library
    /\ UNCHANGED <<_last_video_info, stream_file, response, writers, mtimes,
                   _cancel_flag>>
    /\ fetched' = <<>>
    /\ IF url = ""
       THEN /\ last' = Result("start_download", <<url, download_type, folder>>,
                              FALSE, "error")
            /\ UNCHANGED <<progress_store, threads>>
       ELSE /\ \E t \in Tasks : threads[t].pc = "idle"
            /\ progress_store' = reset_progress_store
            /\ threads' = [threads EXCEPT ![free_task] =
                              Task("running", url, download_type, folder, None)]
            /\ last' = Result("start_download", <<url, download_type, folder>>,
                              TRUE, "started")

\* the engine calls the progress hook of thread t
thread_hook(t, d) ==
    /\ threads[t].pc = "running"
    /\ progress_store' = update_progress(progress_store, hook(d, threads[t].url))
    /\ Unchanged_library
    /\ UNCHANGED <<_last_video_info, last, stream_file, response, fetched, writers,
                   threads, mtimes, _cancel_flag>>

\* run() of thread t: the download itself
run(t) ==
    /\ threads[t].pc = "running"
    /\ IF threads[t].download_type = "video"
       THEN download_by(t, "download_video", threads[t].url, threads[t].folder,
                        "video", ".mp4")
       ELSE download_by(t, "download_audio", threads[t].url, threads[t].folder,
                        "audio", ".mp3")

\* run() of thread t: complete_callback(result), after which the thread ends
complete_callback(t) ==
    /\ threads[t].pc = "returned"
    /\ progress_store' = on_complete(progress_store, threads[t].result)
    /\ threads' = [threads EXCEPT ![t] = IdleTask]
    /\ Unchanged_library
    /\ UNCHANGED <<_last_video_info, last, stream_file, response, fetched, writers,
                   mtimes, _cancel_flag>>

DownloadTypes == {"video", "audio"}

InitDownloads ==
    /\ config_default_folder = Inbox
    /\ videos = (Inbox :> EmptyDir)
    /\ metadata = <<>>
    /\ thumbnails = <<>>
    /\ _last_video_info = NoInfo
    /\ last = Result("initialize_structure", <<>>, TRUE, "")
    /\ NoRequests

\* the downloads are started without a preceding /api/info: the downloader
\* holds no video info, so a download leaves its file and no record
NextDownloads ==
    \/ \E url \in {"", ItemUrl}, download_type \in DownloadTypes :
          start_download(url, download_type, Inbox)
    \/ \E t \in Tasks, d \in HookEvents : thread_hook(t, d)
    \/ \E t \in Tasks : run(t)
    \/ \E t \in Tasks : complete_callback(t)

SpecDownloads == InitDownloads /\ [][NextDownloads]_vars

\* the step is an accepted or refused call of start_download
StartsDownload ==
    /\ last'.op = "start_download"
    /\ \/ last' # last
       \/ \E t \in Tasks : threads[t].pc = "idle" /\ threads'[t].pc # "idle"

\* the step is one of thread t
StepOf(t) == threads[t].pc # "idle" /\ ~StartsDownload

\* C18: a download started with a URL is accepted and its thread runs at once,
\* whatever other download is running, and the one progress_store is reset to
\* 'starting'; whenever a download ends or completes, its thread writes its
\* outcome into that same progress_store, whatever other download is running
C18_DownloadsShareProgress ==
    [][/\ (StartsDownload /\ last'.args[1] # "") =>
             /\ last'.ok
             /\ progress_store' = reset_progress_store
             /\ \E t \in Tasks :
                   /\ threads[t].pc = "idle"
                   /\ threads'[t] = Task("running", last'.args[1], last'.args[2],
                                         last'.args[3], None)
                   /\ \A other \in Tasks \ {t} : threads'[other] = threads[other]
       /\ \A t \in Tasks :
             /\ (StepOf(t) /\ threads[t].pc = "returned" /\ threads'[t].pc = "idle") =>
                   /\ progress_store'.status =
                         IF threads[t].result.success THEN "completed" ELSE "error"
                   /\ threads[t].result.success =>
                         progress_store'.filename = threads[t].result.filename
             /\ (StepOf(t) /\ threads[t].pc = "running" /\ threads'[t].pc = "returned"
                    /\ threads'[t].result.success) =>
                   /\ progress_store'.status = "completed"
                   /\ progress_store'.filename = threads'[t].result.filename
      ]_vars

\* the store shows a download completed while the other download is running
C18_Witness ==
    /\ progress_store.status = "completed"
    /\ progress_store.filename = "T.mp4"
    /\ \E t \in Tasks :
          /\ threads[t].pc = "running"
          /\ threads[t].download_type = "audio"

-----------------------------------------------------------------------------
(* What update_tags and update_metadata leave alone in a record that
   save_metadata wrote: SpecMeta *)

\* the text of a record before and after the body of its Tags section, which
\* the Files section follows
TagsBody(content) == SearchLazy(content, "## Tags\n\n", "\n\n## Files", 0, 1)

OutsideTagsBody(content) ==
    <<SubSeq(content, 1, TagsBody(content).gs - 1),
      From(content, TagsBody(content).ge + 1)>>

\* C19 as stated: update_tags changes only the body of the Tags section of a
\* record that save wrote: get_files returns the same list before and after
\* the call, and the text outside the Tags body is the same.
C19_UpdateTagsKeepsFrame ==
    [][\A id \in DOMAIN metadata :
          (/\ last'.op = "update_tags" /\ last'.ok /\ last'.args[1] = id
           /\ TagsBody(metadata[id]).found)
          => /\ get_files_of(metadata'[id]) = get_files_of(metadata[id])
             /\ TagsBody(metadata'[id]).found
             /\ OutsideTagsBody(metadata'[id]) = OutsideTagsBody(metadata[id])
      ]_vars

\* the line that ends a Description section
DescriptionEnd == "\n\n---\n*Downloaded: "

\* a record that save wrote, taken apart: the title of the heading line,
\* the body of the Description section, and the text around them
HasFields(content) ==
    /\ StartsWith(content, "# ")
    /\ Contains(content, "\n\n## Description\n\n")
    /\ Occurrences(content, DescriptionEnd) # {}

Fields(content) ==
    LET title_end == LineEnd(content, 1)
        body == Find(content, "\n\n## Description\n\n", 1) + Len("\n\n## Description\n\n")
        body_end == Max(Occurrences(content, DescriptionEnd))
    IN  [title |-> SubSeq(content, 3, title_end - 1),
         description |-> SubSeq(content, body, body_end - 1),
         rest |-> <<SubSeq(content, title_end, body - 1), From(content, body_end)>>]

\* C20 as stated: update_metadata leaves a record that differs from the
\* previous one only in the title heading line and the Description body,
\* which are the given values where given, whatever the previous title and
\* description were.
C20_UpdateFieldsKeepsFrame ==
    [][\A id \in DOMAIN metadata :
          (/\ last'.op = "update_metadata" /\ last'.ok /\ last'.args[1] = id
           /\ HasFields(metadata[id]))
          => LET updates == last'.args[2]
                 before == Fields(metadata[id])
                 after == Fields(metadata'[id])
             IN  /\ HasFields(metadata'[id])
                 /\ after.title = IF "title" \in DOMAIN updates
                                  THEN updates["title"] ELSE before.title
                 /\ after.description = IF "description" \in DOMAIN updates
                                        THEN updates["description"]
                                        ELSE before.description
                 /\ after.rest = before.rest
      ]_vars

-----------------------------------------------------------------------------
(* services/library.py: the file an item of the library resolves to, and the
   order in which get_video_library() lists the items *)

\* os.path.join(folder_manager.get_folder_path(folder), filename), and the
\* path of the record of video_id
FilePath(folder, filename) == <<"videos", folder, filename>>
md_path(video_id) == <<"metadata", video_id>>

\* os.path.exists(path)
PathExists(vs, md, path) ==
    IF path[1] = "videos"
    THEN path[2] \in DOMAIN vs /\ path[3] \in DOMAIN vs[path[2]]
    ELSE path[2] \in DOMAIN md

\* LibraryService._get_mtime(filepath)
_get_mtime(vs, md, mt, filepath) ==
    IF PathExists(vs, md, filepath) /\ filepath \in DOMAIN mt THEN mt[filepath] ELSE 0

\* the sort key of get_folders(): (not is_default, name.lower())
FolderKeyLess(default, a, b) ==
    \/ a = default /\ b # default
    \/ /\ (a = default) = (b = default)
       /\ Lower(a) # Lower(b) /\ StrLeq(Lower(a), Lower(b))

\* for f in files: the first row of type video or audio met while no primary
\* folder is set gives the primary folder, filename and filepath
RECURSIVE PrimaryFrom(_, _, _)
PrimaryFrom(files, k, primary) ==
    IF k > Len(files) THEN primary
    ELSE LET f == files[k]
             next == IF f.type \in {"video", "audio"} /\ primary.folder = None
                     THEN [folder |-> f.folder, filename |-> f.filename,
                           filepath |-> IF f.filename # ""
                                        THEN FilePath(f.folder, f.filename)
                                        ELSE primary.filepath]
                     ELSE primary
         IN  PrimaryFrom(files, k + 1, next)

NoPrimary == [folder |-> None, filename |-> None, filepath |-> <<>>]

\* (variant) only a file named after the video_id is matched
find_primary_by_id(vs, default, video_id, title) ==
    LET media(f) == {n \in DOMAIN vs[f] :
                        /\ SplitExt(n).base = video_id
                        /\ Lower(SplitExt(n).ext) \in {".mp4", ".webm", ".mkv", ".mp3"}}
        holding == {f \in DOMAIN vs : media(f) # {}}
    IN  IF holding = {} THEN {NoPrimary}
        ELSE UNION {{[folder |-> f, filename |-> n, filepath |-> FilePath(f, n)] :
                        n \in media(f)} : f \in holding}

\* the primary file _find_files_for_video_id can return: the first media
\* file of a matching base name it meets, the folders taken in get_folders()
\* order and the entries of a folder in os.listdir order, which is any order
find_primary(vs, default, video_id, title) ==
    LET media(f) == {n \in DOMAIN vs[f] :
                        /\ \/ SplitExt(n).base = video_id
                           \/ title # "" /\ SplitExt(n).base = title
                        /\ Lower(SplitExt(n).ext) \in {".mp4", ".webm", ".mkv", ".mp3"}}
        holding == {f \in DOMAIN vs : media(f) # {}}
        first == {f \in holding : \A g \in holding : ~FolderKeyLess(default, g, f)}
    IN  IF holding = {} THEN {NoPrimary}
        ELSE UNION {{[folder |-> f, filename |-> n, filepath |-> FilePath(f, n)] :
                        n \in media(f)} : f \in first}

\* the folder, filename and filepath an item of the listing resolves to:
\* those of the first video or audio row of its record, or of the file
\* found for a record without rows
resolved_from(item, vs, default, video_id) ==
    LET primaries == IF item.files = <<>>
                        \/ (Len(item.files) = 1 /\ item.files[1].type = "-")
                     THEN find_primary(vs, default, video_id, item.title)
                     ELSE {PrimaryFrom(item.files, 1, NoPrimary)}
    IN  {[video_id |-> video_id,
          has_video |-> item.has_video,
          has_audio |-> item.has_audio,
          link_only |-> item.link_only,
          folder |-> IF primary.folder # None THEN primary.folder ELSE default,
          filename |-> IF primary.filename # None THEN primary.filename ELSE video_id,
          filepath |-> IF primary.filepath # <<>> THEN primary.filepath
                       ELSE md_path(video_id)] : primary \in primaries}

\* the items _get_library_from_folder_structure can build from the record
\* <video_id>.md of text content: library_item_of with the folder, filename
\* and filepath the item resolves to
resolved_items(content, vs, thumbs, default, video_id) ==
    resolved_from(library_item_of(content, vs, thumbs, video_id), vs, default, video_id)

\* videos.sort(key=lambda x: self._get_mtime(x['filepath']), reverse=True):
\* the lists the sort can leave, the records being listed in any order
sorted_libraries(vs, md, thumbs, mt, default) ==
    LET ids == DOMAIN md
        n == Cardinality(ids)
        items == UNION {resolved_items(md[v], vs, thumbs, default, v) : v \in ids}
    IN  {list \in [1..n -> items] :
            /\ \A i, j \in 1..n : i # j => list[i].video_id # list[j].video_id
            /\ \A i, j \in 1..n :
                  i < j => _get_mtime(vs, md, mt, list[i].filepath)
                              >= _get_mtime(vs, md, mt, list[j].filepath)}

\* get_video_library()
get_video_library_sorted ==
    /\ \E list \in sorted_libraries(videos, metadata, thumbnails, mtimes, default_folder) :
          Return("get_video_library", <<>>, TRUE, list)
    /\ Unchanged_library
    /\ UNCHANGED _last_video_info

\* LibraryService._find_video_file(folder_path, base_name): the name found
_find_video_file(dir, base_name) ==
    IF base_name \o ".mp4" \in DOMAIN dir THEN base_name \o ".mp4"
    ELSE IF base_name \o ".webm" \in DOMAIN dir THEN base_name \o ".webm"
    ELSE IF base_name \o ".mkv" \in DOMAIN dir THEN base_name \o ".mkv"
    ELSE IF base_name \o ".mp3" \in DOMAIN dir THEN base_name \o ".mp3"
    ELSE None

\* get_video_by_id found nothing
Absent == [found |-> FALSE]

\* the values get_video_by_id(video_id, folder) can return: the file named
\* <video_id>.<ext> of the first folder searched that holds one, else the
\* record when parse_metadata marks it link_only, else None
get_video_by_id_of(md, vs, default, video_id, folder) ==
    LET folders_to_search == IF folder # None THEN {folder} ELSE DOMAIN vs
        holding == {f \in folders_to_search \cap DOMAIN vs :
                       _find_video_file(vs[f], video_id) # None}
        first == {f \in holding : \A g \in holding : ~FolderKeyLess(default, g, f)}
        link_only == video_id \in DOMAIN md /\ parse_metadata(md[video_id]).link_only
    IN  IF holding # {}
        THEN {[found |-> TRUE, video_id |-> video_id, folder |-> f,
               filename |-> _find_video_file(vs[f], video_id),
               filepath |-> FilePath(f, _find_video_file(vs[f], video_id)),
               link_only |-> link_only] : f \in first}
        ELSE IF link_only
        THEN {[found |-> TRUE, video_id |-> video_id, folder |-> default,
               filename |-> video_id, filepath |-> md_path(video_id),
               link_only |-> TRUE]}
        ELSE {Absent}

\* get_video_by_id(video_id, folder)
get_video_by_id(video_id, folder) ==
    /\ \E item \in get_video_by_id_of(metadata, videos, default_folder, video_id, folder) :
          Return("get_video_by_id", <<video_id, folder>>, item.found, item)
    /\ Unchanged_library
    /\ UNCHANGED _last_video_info

\* the latest modification time the model gives a file
MaxTime == 2

OrderIds == {"v1", "v2"}
OrderKinds == {"link", "file", "missing"}
OrderTitle == ("v1" :> "P") @@ ("v2" :> "Q")
OrderFile(video_id) == OrderTitle[video_id] \o ".mp4"

\* the record of an item that was saved as a link, or downloaded as a video
\* into the default folder
OrderRecord(video_id, kind) ==
    IF kind = "link"
    THEN md_content(Info(OrderTitle[video_id], "http://c/1", <<>>, "d"), Inbox, None, None)
    ELSE md_content(Info(OrderTitle[video_id], "http://c/1", <<>>, "d"), Inbox, "video",
                    OrderFile(video_id))

\* a library of two items, each one a saved link, a downloaded video, or a
\* downloaded video whose file is gone; a record is never older than its file
InitOrder ==
    /\ config_default_folder = Inbox
    /\ thumbnails = <<>>
    /\ _last_video_info = NoInfo
    /\ last = Result("initialize_structure", <<>>, TRUE, "")
    /\ stream_file = NoFile /\ response = NoResponse /\ fetched = <<>>
    /\ writers = NoWriters /\ progress_store = IdleProgress /\ threads = NoThreads
    /\ _cancel_flag = FALSE
    /\ \E kind \in [OrderIds -> OrderKinds] :
          /\ metadata = [v \in OrderIds |-> OrderRecord(v, kind[v])]
          /\ videos = (Inbox :> [n \in {OrderFile(v) : v \in {x \in OrderIds : kind[x] = "file"}}
                                   |-> 1])
          /\ \E t \in [{md_path(v) : v \in OrderIds} \cup
                       {FilePath(Inbox, OrderFile(v)) :
                           v \in {x \in OrderIds : kind[x] = "file"}} -> 1..MaxTime] :
                /\ mtimes = t
                /\ \A v \in OrderIds :
                      kind[v] = "file" => t[FilePath(Inbox, OrderFile(v))] <= t[md_path(v)]

NextOrder ==
    \/ get_video_library_sorted
    \/ \E video_id \in OrderIds : get_video_by_id(video_id, None)

SpecOrder == InitOrder /\ [][NextOrder]_vars

\* the item's file is located: it resolves to a media file that exists
Located(item) == item.filepath[1] = "videos" /\ PathExists(videos, metadata, item.filepath)

\* the modification time an item is to be ordered by: that of its primary
\* resolved file, zero when the file cannot be located
OrderTime(item) == IF Located(item) THEN mtimes[item.filepath] ELSE 0

\* C21 as stated: get_video_library() lists the items in descending order of
\* the modification time of their primary resolved file, an item whose file
\* cannot be located (a link-only item, or one whose FileRef names a missing
\* file) counting as modified at time zero, after every item whose file exists.
C21_OrderedByFileTime ==
    last.op = "get_video_library" =>
        \A i, j \in 1..Len(last.ret) :
           i < j => OrderTime(last.ret[i]) >= OrderTime(last.ret[j])

\* C22 as stated: for every video_id that get_video_library() lists, with a
\* resolved file or link-only, get_video_by_id(video_id) returns that item
\* and not None, with the folder, filename and link_only value of the listing.
C22_ItemResolvesAsLibrary ==
    (last.op = "get_video_by_id" /\ last.args[1] \in DOMAIN metadata) =>
        /\ last.ok
        /\ \E item \in resolved_items(metadata[last.args[1]], videos, thumbnails,
                                      default_folder, last.args[1]) :
              /\ last.ret.folder = item.folder
              /\ last.ret.filename = item.filename
              /\ last.ret.link_only = item.link_only

-----------------------------------------------------------------------------
(* The reconciliation of a record without file rows: SpecLib *)

\* the files of the folders whose base name is the video_id or the title
NamedAfter(video_id, title) ==
    UNION {{<<f, n>> : n \in {x \in DOMAIN videos[f] :
                                 \/ SplitExt(x).base = video_id
                                 \/ title # "" /\ SplitExt(x).base = title}} :
           f \in DOMAIN videos}

-----------------------------------------------------------------------------
(* The records and the folders together: downloads and add_file write
   FileRefs, the folder operations move the files they name: SpecRefs *)

RefUrl == "https://youtu.be/u1"
RefId == "v1"
RefFolders == {Inbox, "A"}

InitRefs ==
    /\ config_default_folder = Inbox
    /\ videos = (Inbox :> EmptyDir)
    /\ metadata = <<>>
    /\ thumbnails = <<>>
    /\ _last_video_info = NoInfo
    /\ last = Result("initialize_structure", <<>>, TRUE, "")
    /\ NoRequests

NextRefs ==
    \/ create_folder("A")
    \/ get_video_info(RefUrl)
    \/ download_video(RefUrl, "A")
    \/ add_file(RefId, "video", "T.mp4", Inbox)
    \/ \E source_folder, target_folder \in RefFolders :
          move_video("T.mp4", source_folder, target_folder)
    \/ rename_folder("A", "B")
    \/ delete_folder("A")
    \/ rename_default_folder("B")

SpecRefs == InitRefs /\ [][NextRefs]_vars

C26_FileRefsResolve ==
    \A id \in DOMAIN metadata :
       \A k \in 1..Len(get_files(id)) : FileRefResolves(get_files(id)[k])

-----------------------------------------------------------------------------
(* Saving a link again, after the record was edited: SpecLink *)

LinkIds == {video_id_of(url, Engine[url]) : url \in Urls}

InitLink ==
    /\ config_default_folder = Inbox
    /\ videos = (Inbox :> EmptyDir)
    /\ metadata = <<>>
    /\ thumbnails = <<>>
    /\ _last_video_info = NoInfo
    /\ last = Result("initialize_structure", <<>>, TRUE, "")
    /\ NoRequests

NextLink ==
    \/ \E url \in Urls : save_link_only(url, Inbox)
    \/ \E video_id \in LinkIds : add_file(video_id, "video", "a.mp4", "A")
    \/ \E video_id \in LinkIds : update_tags(video_id, <<"x", "y">>)
    \/ \E video_id \in LinkIds : update_metadata(video_id, ("title" :> "T2"))
    \/ \E video_id \in LinkIds : delete_thumbnail(video_id)

SpecLink == InitLink /\ [][NextLink]_vars

\* C25: the video_id of a saved link is the one derived from the URL (the
\* engine's id, or the digest of the URL), a save writes no record but the
\* one of that video_id, and when that record exists already the save
\* succeeds with already_exists and leaves the record and the thumbnails as
\* they were.
C25_SaveLinkKeepsExistingRecord ==
    [][(last'.op = "save_link_only" /\ last'.ok) =>
        LET url == last'.args[1]
            video_id == video_id_of(url, Engine[url])
        IN  /\ last'.ret.video_id = video_id
            /\ DOMAIN metadata' = DOMAIN metadata \cup {video_id}
            /\ \A id \in DOMAIN metadata \ {video_id} : metadata'[id] = metadata[id]
            /\ last'.ret.already_exists = metadata_exists(video_id)
            /\ metadata_exists(video_id) =>
                  /\ metadata'[video_id] = metadata[video_id]
                  /\ thumbnails' = thumbnails
      ]_vars

\* a link saved again after its record got a FileRef and a new title and
\* its thumbnail was deleted, next to the record of the other URL
C25_Witness ==
    /\ last.op = "save_link_only" /\ last.ok /\ last.ret.already_exists
    /\ last.ret.video_id = "v1"
    /\ DOMAIN metadata = LinkIds
    /\ parse_metadata(metadata["v1"]).title = "T2"
    /\ get_files("v1") = <<[type |-> "video", filename |-> "a.mp4", folder |-> "A"]>>
    /\ "v1" \notin DOMAIN thumbnails

-----------------------------------------------------------------------------
(* A failed folder deletion: SpecDelete.  The content directory is an
   ordinary directory of the disk: a folder may hold a subdirectory, which
   delete_folder skips (os.path.isfile) and os.rmdir refuses. *)

DeleteFolders == {Inbox, "A"}
DeleteNames == {"a.mp4", "b.mp4"}

InitDelete ==
    /\ config_default_folder = Inbox
    /\ \E sub \in {EmptyDir, ("sub" :> SubDir)} :
          videos = (Inbox :> EmptyDir) @@ ("A" :> sub)
    /\ metadata = <<>>
    /\ thumbnails = <<>>
    /\ _last_video_info = NoInfo
    /\ last = Result("initialize_structure", <<>>, TRUE, "")
    /\ NoRequests

NextDelete ==
    \/ create_folder("A")
    \/ \E folder \in DeleteFolders, filename \in DeleteNames :
          file_downloaded(folder, filename)
    \/ \E filename \in DeleteNames, source_folder, target_folder \in DeleteFolders :
          move_video(filename, source_folder, target_folder)
    \/ \E name \in DeleteFolders : delete_folder(name)

SpecDelete == InitDelete /\ [][NextDelete]_vars

\* C27: a delete(name) that returns failure has moved no file: the folders
\* hold the files they held before the call.
C27_FailedDeleteMovesNothing ==
    [][(last'.op = "delete_folder" /\ ~last'.ok) => videos' = videos]_vars

-----------------------------------------------------------------------------
(* add_file and the rows get_files reads back, checked under SpecMeta *)

HasFileRef(files, file_type, filename, folder) ==
    \E k \in 1..Len(files) :
       files[k] = [type |-> file_type, filename |-> filename, folder |-> folder]

\* C28: when add_file(video_id, kind, filename, folder) has returned
\* success, get_files(video_id) contains the row {kind, filename, folder},
\* whatever the text of the record was; add_file for a video_id with no
\* record returns failure and creates no record.
C28_AddedFileIsListed ==
    [][last'.op = "add_file" =>
        LET video_id == last'.args[1]
        IN  /\ last'.ok = metadata_exists(video_id)
            /\ last'.ok =>
                  HasFileRef(get_files_of(metadata'[video_id]),
                             last'.args[2], last'.args[3], last'.args[4])
            /\ ~last'.ok => metadata' = metadata
      ]_vars

-----------------------------------------------------------------------------
(* The record a download leaves, checked under SpecLib *)

\* C29: a download of a URL that reports success leaves a record for the
\* video_id of that URL, whose source URL is that URL and whose FileRefs
\* include the downloaded file, whatever was called before.
C29_DownloadLeavesItsRecord ==
    [][(last'.op = "download_video" /\ last'.ok) =>
        LET url == last'.args[1]
            video_id == last'.ret.video_id
        IN  /\ video_id = video_id_of(url, Engine[url])
            /\ video_id \in DOMAIN metadata'
            /\ parse_metadata(metadata'[video_id]).url = url
            /\ HasFileRef(get_files_of(metadata'[video_id]),
                          "video", last'.ret.filename, last'.args[2])
      ]_vars

-----------------------------------------------------------------------------
(* Cancelling a download: SpecCancel.  /api/cancel is served in a thread of
   its own while the background thread of download_async runs
   download_video, so download_video is a sequence of steps here: it resets
   the flag, the engine downloads the file, the flag is read once, and the
   record is written. *)

\* POST /api/cancel: downloader.cancel_download()
cancel_download ==
    /\ _cancel_flag' = TRUE
    /\ last' = Result("cancel_download", <<>>, TRUE, "cancelled")
    /\ fetched' = <<>>
    /\ Unchanged_library
    /\ UNCHANGED <<_last_video_info, stream_file, response, writers, progress_store,
                   threads, mtimes>>

\* download_video of thread t begins: self._cancel_flag = False
download_begins(t) ==
    /\ threads[t].pc = "running"
    /\ _cancel_flag' = FALSE
    /\ threads' = [threads EXCEPT ![t].pc = "downloading"]
    /\ Unchanged_library
    /\ UNCHANGED <<_last_video_info, last, stream_file, response, fetched, writers,
                   progress_store, mtimes>>

\* ydl.extract_info(url, download=True) returns, the file being on the
\* disk, and the flag is read: if self._cancel_flag: return
download_extracted(t) ==
    LET url == threads[t].url
        folder == threads[t].folder
        written == engine_write(videos, folder, base_filename_of(Engine[url], ".mp4"),
                                Min({c \in 1..(MaxFiles + 1) : c \notin Contents}))
    IN  /\ threads[t].pc = "downloading"
        /\ Cardinality(Contents) < MaxFiles \/ written = videos
        /\ videos' = written
        /\ UNCHANGED <<config_default_folder, metadata, thumbnails, _last_video_info>>
        /\ IF _cancel_flag
           THEN thread_return(t, "download_video", <<url, folder>>, FALSE, "cancelled",
                              <<>>)
           ELSE /\ threads' = [threads EXCEPT ![t].pc = "saving"]
                /\ UNCHANGED <<last, stream_file, response, fetched, writers,
                               progress_store, mtimes, _cancel_flag>>

\* the rest of download_video: the record, the thumbnail, the last
\* progress_callback and the result
download_saves(t) ==
    LET url == threads[t].url
        folder == threads[t].folder
        video_id == video_id_of(url, Engine[url])
        base_filename == base_filename_of(Engine[url], ".mp4")
        ret == [filename |-> base_filename, folder |-> folder, video_id |-> video_id]
    IN  /\ threads[t].pc = "saving"
        /\ UNCHANGED <<config_default_folder, videos, _last_video_info>>
        /\ IF metadata_exists(video_id)
           THEN /\ metadata' = [metadata EXCEPT ![video_id] =
                                   add_file_content(@, "video", base_filename, folder)]
                /\ thread_return(t, "download_video", <<url, folder>>, TRUE, ret, <<>>)
                /\ UNCHANGED thumbnails
           ELSE /\ metadata' =
                     IF DOMAIN _last_video_info = {} THEN metadata
                     ELSE Put(metadata, video_id,
                              md_content(_last_video_info, folder, "video",
                                         base_filename))
                /\ \E saved_thumbnail \in
                         save_thumbnail_outcomes(thumbnails, video_id,
                                                 _last_video_info, None) :
                      /\ thumbnails' = saved_thumbnail.thumbnails
                      /\ thread_return(t, "download_video", <<url, folder>>, TRUE, ret,
                                       saved_thumbnail.fetched)

InitCancel ==
    /\ config_default_folder = Inbox
    /\ videos = (Inbox :> EmptyDir)
    /\ metadata = <<>>
    /\ thumbnails = <<>>
    /\ _last_video_info = NoInfo
    /\ last = Result("initialize_structure", <<>>, TRUE, "")
    /\ NoRequests

NextCancel ==
    \/ get_video_info(ItemUrl)
    \/ start_download(ItemUrl, "video", Inbox)
    \/ cancel_download
    \/ \E t \in Tasks : download_begins(t)
    \/ \E t \in Tasks : download_extracted(t)
    \/ \E t \in Tasks : download_saves(t)
    \/ \E t \in Tasks : complete_callback(t)

SpecCancel == InitCancel /\ [][NextCancel]_vars

\* the positions of a download thread between its start and its result
ActivePcs == {"running", "downloading", "saving"}

\* C30: a download whose thread is still at work when a cancel request was
\* the last request served (so the request came after the start of the
\* download and before its end) ends with the failure 'cancelled', writes
\* no record and no FileRef, and does not set the progress to 'completed'.
C30_CancelEndsDownload ==
    [][\A t \in Tasks :
          (/\ last.op = "cancel_download"
           /\ threads[t].pc \in ActivePcs
           /\ threads'[t].pc = "returned") =>
             /\ ~threads'[t].result.success
             /\ threads'[t].result.error = "cancelled"
             /\ metadata' = metadata
             /\ progress_store'.status # "completed"
      ]_vars
====
